---------------------------- MODULE Spec2Model ----------------------------
(***************************************************************************)
(* A model of the HSBC statement parser: HSBCStatementParser.parse          *)
(* (parser/pdf_parser.py) and the transaction extraction engine            *)
(* extract_transactions_from_words (parser/transaction_extractor.py).      *)
(*                                                                         *)
(* Token texts are TLA+ strings; a character is a string of length 1.      *)
(* An amount (a Python float read from a two-decimal money string) is kept *)
(* as the integer number of pence it was read from, so 12.50 is 1250; the  *)
(* arithmetic of validate_transactions is done on the doubles themselves.  *)
(* Optional values are sequences: <<>> is None and <<v>> is the value v.   *)
(***************************************************************************)
EXTENDS Integers, Sequences, FiniteSets, TLC

(***************************************************************************)
(* Bounds of the model.                                                    *)
(***************************************************************************)
\* The number of pages of a PDF that parse is given.
MaxPages == 2
\* The number of pages in the input of extract_transactions_from_words
\* when it is called on its own.
MaxWordPages == 4
\* The number of pages of a document on which the page reader raises.
MaxRaise == 1

\* Transactions in a list given to validate_transactions alone.
MaxValidated == 2

\* Page texts of a document given to extract_summary alone.
MaxTexts == 3

\* Pages of transactions behind the sheet PageLabels.
MaxOutPages == 3

\* Pages of a document of the parses side by side.
MaxParsePages == 2

\* Transaction lists given to generate_combined_csv.
MaxLists == 3

\* Pages of a document of transaction lines.
MaxDocPages == 3

\* Tokens of a line given to the column classifier.
MaxLineWords == 2

\* Words of a page given to the line grouper.
MaxGroupWords == 2

(***************************************************************************)
(* Optional values and Python truthiness.                                  *)
(***************************************************************************)
None == <<>>

Some(v) == <<v>>

\* bool(x) of an Optional[float]: None and 0.0 are false.
TruthyNum(o) == o # None /\ o[1] # 0

\* bool(x) of an Optional[str]: None and "" are false.
TruthyStr(o) == o # None /\ o[1] # ""

\* bool(x) of an Optional[datetime]: only None is false.
TruthyDate(o) == o # None

(***************************************************************************)
(* Strings.                                                                *)
(***************************************************************************)
Char(s, i) == SubSeq(s, i, i)

DigitChars == {"0", "1", "2", "3", "4", "5", "6", "7", "8", "9"}

DigitVal(c) ==
    CASE c = "0" -> 0 [] c = "1" -> 1 [] c = "2" -> 2 [] c = "3" -> 3
      [] c = "4" -> 4 [] c = "5" -> 5 [] c = "6" -> 6 [] c = "7" -> 7
      [] c = "8" -> 8 [] c = "9" -> 9

\* str.isdigit(): non-empty and every character a digit.
IsDigit(s) == Len(s) > 0 /\ \A i \in 1..Len(s) : Char(s, i) \in DigitChars

\* int(s) of a digit string ("" counts 0).
RECURSIVE DigitsToInt(_)
DigitsToInt(s) ==
    IF Len(s) = 0 THEN 0
    ELSE 10 * DigitsToInt(SubSeq(s, 1, Len(s) - 1)) + DigitVal(Char(s, Len(s)))

LowerChars ==
    <<"a", "b", "c", "d", "e", "f", "g", "h", "i", "j", "k", "l", "m",
      "n", "o", "p", "q", "r", "s", "t", "u", "v", "w", "x", "y", "z">>

UpperChars ==
    <<"A", "B", "C", "D", "E", "F", "G", "H", "I", "J", "K", "L", "M",
      "N", "O", "P", "Q", "R", "S", "T", "U", "V", "W", "X", "Y", "Z">>

LowerSet == {LowerChars[k] : k \in 1..26}

UpperChar(c) ==
    IF c \in LowerSet
    THEN UpperChars[CHOOSE k \in 1..26 : LowerChars[k] = c]
    ELSE c

\* str.upper(), character by character (by halves, which keeps the
\* evaluation shallow on a long text)
RECURSIVE Upper(_)
Upper(s) ==
    IF Len(s) = 0 THEN ""
    ELSE IF Len(s) = 1 THEN UpperChar(s)
    ELSE Upper(SubSeq(s, 1, Len(s) \div 2))
             \o Upper(SubSeq(s, Len(s) \div 2 + 1, Len(s)))

\* needle in hay
Contains(hay, needle) ==
    \E i \in 1..(Len(hay) - Len(needle) + 1) :
        SubSeq(hay, i, i + Len(needle) - 1) = needle

\* s.replace(c, '') for a single character c
RECURSIVE RemoveChar(_, _)
RemoveChar(s, c) ==
    IF Len(s) = 0 THEN ""
    ELSE (IF Char(s, 1) = c THEN "" ELSE Char(s, 1))
             \o RemoveChar(SubSeq(s, 2, Len(s)), c)

\* ' '.join(parts)
RECURSIVE JoinSpace(_)
JoinSpace(parts) ==
    IF Len(parts) = 0 THEN ""
    ELSE IF Len(parts) = 1 THEN parts[1]
    ELSE parts[1] \o " " \o JoinSpace(Tail(parts))


(***************************************************************************)
(* Amounts and dates.                                                      *)
(***************************************************************************)
\* AMOUNT_PATTERN = ^[\d,]+\.\d{2}$
AMOUNT_PATTERN(s) ==
    /\ Len(s) >= 4
    /\ Char(s, Len(s) - 2) = "."
    /\ IsDigit(SubSeq(s, Len(s) - 1, Len(s)))
    /\ \A i \in 1..(Len(s) - 3) : Char(s, i) \in DigitChars \cup {","}

\* float(clean) in pence, for the strings float() is given here: digits, a
\* point and two digits (the digits before the point may be missing, as in
\* ".50"). Any other string raises ValueError.
IsFloat(clean) ==
    /\ Len(clean) >= 3
    /\ Char(clean, Len(clean) - 2) = "."
    /\ IsDigit(SubSeq(clean, Len(clean) - 1, Len(clean)))
    /\ \A i \in 1..(Len(clean) - 3) : Char(clean, i) \in DigitChars

FloatPence(clean) ==
    100 * DigitsToInt(SubSeq(clean, 1, Len(clean) - 3))
        + DigitsToInt(SubSeq(clean, Len(clean) - 1, Len(clean)))

Pound == "£"

WhiteChars == {" ", "\t", "\n", "\r"}

\* s.replace(sub, '')
RECURSIVE RemoveStr(_, _)
RemoveStr(s, sub) ==
    IF Len(s) = 0 THEN ""
    ELSE IF Len(s) >= Len(sub) /\ SubSeq(s, 1, Len(sub)) = sub
    THEN RemoveStr(SubSeq(s, Len(sub) + 1, Len(s)), sub)
    ELSE Char(s, 1) \o RemoveStr(SubSeq(s, 2, Len(s)), sub)

\* s.strip()
RECURSIVE Strip(_)
Strip(s) ==
    IF Len(s) = 0 THEN ""
    ELSE IF Char(s, 1) \in WhiteChars THEN Strip(SubSeq(s, 2, Len(s)))
    ELSE IF Char(s, Len(s)) \in WhiteChars
    THEN Strip(SubSeq(s, 1, Len(s) - 1))
    ELSE s

\* parse_amount: commas and pound signs removed, stripped, then float();
\* 0.0 for an empty string and on ValueError.
parse_amount(amount_str) ==
    IF amount_str = "" THEN 0
    ELSE LET clean == Strip(RemoveStr(RemoveStr(amount_str, ","), Pound))
         IN  IF IsFloat(clean) THEN FloatPence(clean) ELSE 0

MonthNames ==
    <<"Jan", "Feb", "Mar", "Apr", "May", "Jun",
      "Jul", "Aug", "Sep", "Oct", "Nov", "Dec">>

IsMonth(text) == \E k \in 1..12 : MonthNames[k] = text

MonthIndex(text) == CHOOSE k \in 1..12 : MonthNames[k] = text

IsLeap(y) == y % 4 = 0 /\ (y % 100 # 0 \/ y % 400 = 0)

DaysInMonth(m, y) ==
    IF m = 2 THEN (IF IsLeap(y) THEN 29 ELSE 28)
    ELSE IF m \in {4, 6, 9, 11} THEN 30 ELSE 31

\* %y of strptime: 69..99 are 1969..1999, 00..68 are 2000..2068.
FullYear(yy) == IF yy <= 68 THEN 2000 + yy ELSE 1900 + yy

\* parse_date_parts: datetime.strptime(f"{day} {month} {year}", '%d %b %y'),
\* None on ValueError. %d takes one or two digits making 1..31, %b a month
\* abbreviation, %y exactly two digits; the day must exist in the month.
parse_date_parts(day, month, year) ==
    IF /\ IsDigit(day) /\ Len(day) <= 2 /\ DigitsToInt(day) >= 1
       /\ IsMonth(month)
       /\ IsDigit(year) /\ Len(year) = 2
       /\ DigitsToInt(day)
              <= DaysInMonth(MonthIndex(month), FullYear(DigitsToInt(year)))
    THEN Some([year  |-> FullYear(DigitsToInt(year)),
               month |-> MonthIndex(month),
               day   |-> DigitsToInt(day)])
    ELSE None

\* The order of datetime values (the sort key t.date).
DateKey(d) == d.year * 10000 + d.month * 100 + d.day

(***************************************************************************)
(* Column classifier (extract_transactions_from_words, the loop over       *)
(* line_words).                                                            *)
(***************************************************************************)
PAYMENT_TYPES ==
    <<"DD", "VIS", "BP", "CR", "SO", "OBP", ")))", "FPO", "FPI", "CHQ",
      "ATM", "TFR", "INT", "DR", "DL">>

COL_DATE_MAX == 100
COL_PAYMENT_TYPE_MIN == 100
COL_PAYMENT_TYPE_MAX == 130
COL_DESCRIPTION_MIN == 130
COL_PAID_OUT_MIN == 350
COL_PAID_OUT_MAX == 430
COL_PAID_IN_MIN == 430
COL_PAID_IN_MAX == 510
COL_BALANCE_MIN == 510

IsPaymentType(text) ==
    \E k \in 1..Len(PAYMENT_TYPES) : Upper(PAYMENT_TYPES[k]) = Upper(text)

\* What a line has yielded so far.
EmptyFields ==
    [date_parts |-> <<>>, payment_type |-> None, description_words |-> <<>>,
     paid_out |-> None, paid_in |-> None, balance |-> None]

\* The body of "for w in line_words" that drops an amount-shaped token
\* outside the three amount bands.
ClassifyWord_DropAmount(f, w) ==
    LET x == w.x
        text == w.text
    IN  IF x < COL_DATE_MAX
        THEN IF (IsDigit(text) /\ Len(text) <= 2) \/ IsMonth(text)
             THEN [f EXCEPT !.date_parts = Append(@, text)]
             ELSE f
        ELSE IF COL_PAYMENT_TYPE_MIN <= x /\ x < COL_PAYMENT_TYPE_MAX
        THEN IF IsPaymentType(text)
             THEN [f EXCEPT !.payment_type = Some(Upper(text))]
             ELSE IF AMOUNT_PATTERN(text) THEN f
             ELSE [f EXCEPT !.description_words = Append(@, text)]
        ELSE IF AMOUNT_PATTERN(text)
        THEN LET amount == parse_amount(text)
             IN  IF COL_PAID_OUT_MIN <= x /\ x < COL_PAID_OUT_MAX
                 THEN [f EXCEPT !.paid_out = Some(amount)]
                 ELSE IF COL_PAID_IN_MIN <= x /\ x < COL_PAID_IN_MAX
                 THEN [f EXCEPT !.paid_in = Some(amount)]
                 ELSE IF x >= COL_BALANCE_MIN
                 THEN [f EXCEPT !.balance = Some(amount)]
                 ELSE f
        ELSE IF COL_DESCRIPTION_MIN <= x /\ x < COL_PAID_OUT_MIN
        THEN [f EXCEPT !.description_words = Append(@, text)]
        ELSE f

\* One pass of the body of "for w in line_words".
ClassifyWord(f, w) ==
    LET x == w.x
        text == w.text
    IN  IF x < COL_DATE_MAX
        THEN IF IsDigit(text) /\ Len(text) <= 2
             THEN [f EXCEPT !.date_parts = Append(@, text)]
             ELSE IF IsMonth(text)
             THEN [f EXCEPT !.date_parts = Append(@, text)]
             ELSE IF IsDigit(text) /\ Len(text) = 2 /\ Len(f.date_parts) = 2
             THEN [f EXCEPT !.date_parts = Append(@, text)]
             ELSE f
        ELSE IF COL_PAYMENT_TYPE_MIN <= x /\ x < COL_PAYMENT_TYPE_MAX
        THEN IF IsPaymentType(text)
             THEN [f EXCEPT !.payment_type = Some(Upper(text))]
             ELSE IF text = ")))"
             THEN [f EXCEPT !.payment_type = Some(")))")]
             ELSE [f EXCEPT !.description_words = Append(@, text)]
        ELSE IF AMOUNT_PATTERN(text)
        THEN LET amount == parse_amount(text)
             IN  IF COL_PAID_OUT_MIN <= x /\ x < COL_PAID_OUT_MAX
                 THEN [f EXCEPT !.paid_out = Some(amount)]
                 ELSE IF COL_PAID_IN_MIN <= x /\ x < COL_PAID_IN_MAX
                 THEN [f EXCEPT !.paid_in = Some(amount)]
                 ELSE IF x >= COL_BALANCE_MIN
                 THEN [f EXCEPT !.balance = Some(amount)]
                 ELSE [f EXCEPT !.description_words = Append(@, text)]
        ELSE IF COL_DESCRIPTION_MIN <= x /\ x < COL_PAID_OUT_MIN
        THEN [f EXCEPT !.description_words = Append(@, text)]
        ELSE f

\* for w in line_words: ... , from the empty fields.
RECURSIVE ClassifyFrom(_, _)
ClassifyFrom(f, line_words) ==
    IF Len(line_words) = 0 THEN f
    ELSE ClassifyFrom(ClassifyWord(f, Head(line_words)), Tail(line_words))

ClassifyLine(line_words) == ClassifyFrom(EmptyFields, line_words)

(***************************************************************************)
(* Noise filter.                                                           *)
(***************************************************************************)
SkipPatterns ==
    {"CONTACT TEL", "TEXT PHONE", "WWW.HSBC", "YOUR STATEMENT",
     "ACCOUNT NAME", "SORTCODE", "SHEET NUMBER", "BRANCH IDENTIFIER",
     "INTERNATIONAL BANK", "OPENINGBALANCE", "CLOSINGBALANCE",
     "PAYMENTS IN", "PAYMENTS OUT", "ARRANGEDOVERDRAFT",
     "HANOVER STREET", "PAYMENT TYPE AND DETAILS",
     "YOUR BANK ACCOUNT", "YOUR DEPOSIT", "FINANCIAL SERVICES",
     "CREDIT INTEREST", "DEBIT INTEREST", "AER BALANCE", "EAR BALANCE"}

RECURSIVE Texts(_)
Texts(line_words) ==
    IF Len(line_words) = 0 THEN <<>>
    ELSE <<Head(line_words).text>> \o Texts(Tail(line_words))

\* line_text = ' '.join(w['text'] for w in line_words).upper()
LineText(line_words) == Upper(JoinSpace(Texts(line_words)))

\* any(skip in line_text for skip in [...])
IsNoise(line_text) == \E skip \in SkipPatterns : Contains(line_text, skip)

IsBroughtForward(line_text) ==
    Contains(RemoveChar(line_text, " "), "BALANCEBROUGHTFORWARD")

IsCarriedForward(line_text) ==
    Contains(RemoveChar(line_text, " "), "BALANCECARRIEDFORWARD")

(***************************************************************************)
(* Line grouper. A word of a page is [x0, top, text]; top counts tenths of *)
(* a unit, so 103 is the vertical offset 10.3.                             *)
(***************************************************************************)
\* round(top, 0): to the nearest integer, a half to the even neighbour.
Round(top) ==
    LET q == top \div 10
        r == top % 10
    IN  IF r < 5 THEN q
        ELSE IF r > 5 THEN q + 1
        ELSE IF q % 2 = 0 THEN q ELSE q + 1

\* The words of the page whose top rounds to y, in page order, as x/text.
RECURSIVE LineOf(_, _)
LineOf(words, y) ==
    IF Len(words) = 0 THEN <<>>
    ELSE (IF Round(Head(words).top) = y
          THEN <<[x |-> Head(words).x0, text |-> Head(words).text]>>
          ELSE <<>>) \o LineOf(Tail(words), y)

\* sorted(seq, key=lambda w: w['x']): a stable insertion sort.
RECURSIVE InsertByX(_, _)
InsertByX(sorted, w) ==
    IF Len(sorted) = 0 THEN <<w>>
    ELSE IF sorted[Len(sorted)].x <= w.x THEN Append(sorted, w)
    ELSE Append(InsertByX(SubSeq(sorted, 1, Len(sorted) - 1), w),
                sorted[Len(sorted)])

\* The line's words left in page order.
SortedByX_None(ws) == ws

RECURSIVE SortedByX(_)
SortedByX(ws) ==
    IF Len(ws) = 0 THEN <<>>
    ELSE InsertByX(SortedByX(SubSeq(ws, 1, Len(ws) - 1)), ws[Len(ws)])

LineKeys(words) == {Round(words[i].top) : i \in 1..Len(words)}

\* The keys of a page's lines in ascending order: sorted(lines.keys()).
RECURSIVE SortedKeys(_)
SortedKeys(keys) ==
    IF keys = {} THEN <<>>
    ELSE LET m == CHOOSE k \in keys : \A j \in keys : k <= j
         IN  <<m>> \o SortedKeys(keys \ {m})

\* The lines of one page in processing order, each sorted by x.
GroupLines(words) ==
    LET ys == SortedKeys(LineKeys(words))
    IN  [i \in 1..Len(ys) |-> SortedByX(LineOf(words, ys[i]))]

(***************************************************************************)
(* Summary extractor. Each of the four patterns is                         *)
(*   <first>[s?]\s*<second>\s*[pound]?([\d,]+\.\d{2})   with re.IGNORECASE *)
(* and re.search returns the leftmost match.                               *)
(***************************************************************************)
SummaryPatterns ==
    [opening_balance |-> [first |-> "Opening", opt_s |-> FALSE,
                          second |-> "Balance"],
     closing_balance |-> [first |-> "Closing", opt_s |-> FALSE,
                          second |-> "Balance"],
     payments_in     |-> [first |-> "Payment", opt_s |-> TRUE,
                          second |-> "In"],
     payments_out    |-> [first |-> "Payment", opt_s |-> TRUE,
                          second |-> "Out"]]

\* The first index from i on that holds no whitespace (\s* is greedy).
RECURSIVE SkipWs(_, _)
SkipWs(text, i) ==
    IF i <= Len(text) /\ Char(text, i) \in WhiteChars
    THEN SkipWs(text, i + 1) ELSE i

\* The first index from i on that holds neither a digit nor a comma.
RECURSIVE RunEnd(_, _)
RunEnd(text, i) ==
    IF i <= Len(text) /\ Char(text, i) \in DigitChars \cup {","}
    THEN RunEnd(text, i + 1) ELSE i

\* Whether lit, letter case ignored, stands at index i of the text whose
\* upper-cased form is up.
LitAt(up, i, lit) ==
    /\ i + Len(lit) - 1 <= Len(up)
    /\ SubSeq(up, i, i + Len(lit) - 1) = Upper(lit)

\* ([\d,]+\.\d{2}) at index k: the group, or None.
AmountAt(up, k) ==
    LET e == RunEnd(up, k)
    IN  IF /\ e > k
           /\ e + 2 <= Len(up)
           /\ Char(up, e) = "."
           /\ IsDigit(SubSeq(up, e + 1, e + 2))
        THEN Some(SubSeq(up, k, e + 2))
        ELSE None

\* The pattern matched at index i: group 1, or None.
MatchAt(up, i, pat) ==
    IF ~LitAt(up, i, pat.first) THEN None
    ELSE LET a == i + Len(pat.first)
             b == IF pat.opt_s /\ LitAt(up, a, "s") THEN a + 1 ELSE a
             c == SkipWs(up, b)
         IN  IF ~LitAt(up, c, pat.second) THEN None
             ELSE LET d == SkipWs(up, c + Len(pat.second))
                      k == IF LitAt(up, d, Pound) THEN d + Len(Pound)
                           ELSE d
                  IN  AmountAt(up, k)

\* re.search(pattern, text, re.IGNORECASE): group 1 of the leftmost match,
\* given the upper-cased text (a group holds digits, commas and a point,
\* which upper-casing leaves alone).
Search(up, pat) ==
    LET hits == {i \in 1..Len(up) : MatchAt(up, i, pat) # None}
    IN  IF hits = {} THEN None
        ELSE MatchAt(up, CHOOSE i \in hits : \A j \in hits : i <= j, pat)

\* summary.get(key, 0), given the match of the key's pattern
SummaryGet(m) == IF m = None THEN 0 ELSE parse_amount(m[1])

\* extract_summary with "if len(summary) >= 1".
extract_summary_AnyLabel(text) ==
    LET up == Upper(text)
        opening == Search(up, SummaryPatterns.opening_balance)
        closing == Search(up, SummaryPatterns.closing_balance)
        pay_in == Search(up, SummaryPatterns.payments_in)
        pay_out == Search(up, SummaryPatterns.payments_out)
        found == Len(SelectSeq(<<opening, closing, pay_in, pay_out>>,
                               LAMBDA m : m # None))
    IN  IF found >= 1
        THEN Some([opening_balance |-> SummaryGet(opening),
                   closing_balance |-> SummaryGet(closing),
                   payments_in     |-> SummaryGet(pay_in),
                   payments_out    |-> SummaryGet(pay_out)])
        ELSE None

\* extract_summary: a StatementSummary when at least two labels are found.
extract_summary(text) ==
    LET up == Upper(text)
        opening == Search(up, SummaryPatterns.opening_balance)
        closing == Search(up, SummaryPatterns.closing_balance)
        pay_in == Search(up, SummaryPatterns.payments_in)
        pay_out == Search(up, SummaryPatterns.payments_out)
        found == Len(SelectSeq(<<opening, closing, pay_in, pay_out>>,
                               LAMBDA m : m # None))
    IN  IF found >= 2
        THEN Some([opening_balance |-> SummaryGet(opening),
                   closing_balance |-> SummaryGet(closing),
                   payments_in     |-> SummaryGet(pay_in),
                   payments_out    |-> SummaryGet(pay_out)])
        ELSE None

\* '\n'.join(pages_text)
RECURSIVE JoinLines(_)
JoinLines(parts) ==
    IF Len(parts) = 0 THEN ""
    ELSE IF Len(parts) = 1 THEN parts[1]
    ELSE parts[1] \o "\n" \o JoinLines(Tail(parts))

(***************************************************************************)
(* Validator.                                                              *)
(***************************************************************************)
\* A float of the program is an IEEE-754 double. Every double the validator
\* meets lies next to a whole number of pence, so it is kept as [n, e]: its
\* value is n/100 + e/(100 * 2^DblScale), n the pence and e the distance of
\* the double from n/100. The arithmetic below is the double's own: exact
\* result, then round to nearest, ties to even, on the grid of the result's
\* exponent.
DblScale == 59

\* The exponent of 0.01, the least amount.
MinExp == -7

RECURSIVE Pow2(_)
Pow2(k) == IF k = 0 THEN 1 ELSE 2 * Pow2(k - 1)

\* 2^k modulo m
RECURSIVE PowMod(_, _)
PowMod(k, m) == IF k = 0 THEN 1 % m ELSE (2 * PowMod(k - 1, m)) % m

\* floor(log2 v) of the value v of [n, e], n >= 1, searched upwards from j.
RECURSIVE Exp2From(_, _, _)
Exp2From(n, e, j) ==
    LET nxt == j + 1
        above == IF nxt >= 0
                 THEN \/ n > 100 * Pow2(nxt)
                      \/ (n = 100 * Pow2(nxt) /\ e >= 0)
                 ELSE \/ n * Pow2(-nxt) > 100
                      \/ (n * Pow2(-nxt) = 100 /\ e >= 0)
    IN  IF above THEN Exp2From(n, e, nxt) ELSE j

Exp2(n, e) == Exp2From(n, e, MinExp)

\* a modulo m, never negative
Mod(a, m) == ((a % m) + m) % m

\* The rounding of [n, e] where the doubles are G apart and the exact value
\* has rem above the double below it: to the nearest, a tie to the even one.
RoundRem(n, e, k, sc, G, rem) ==
    IF rem = 0 THEN [n |-> n, e |-> e]
    ELSE IF \/ 2 * rem < G
            \/ /\ 2 * rem = G
               /\ Mod((n % 200) * PowMod(k, 200) + ((e - rem) \div sc), 200) = 0
    THEN [n |-> n, e |-> e - rem]
    ELSE [n |-> n, e |-> e + G - rem]

\* The rounding of [n, e] to k fraction bits, sc being 2^(DblScale - k).
RoundBits(n, e, k, sc) ==
    RoundRem(n, e, k, sc, 100 * sc,
             Mod(sc * (((n % 100) * PowMod(k, 100)) % 100) + e, 100 * sc))

\* The rounding of [n, e] to k fraction bits.
RoundTo(n, e, k) == RoundBits(n, e, k, Pow2(DblScale - k))

\* The double nearest to the exact value [n, e], for a value >= 0: it has
\* 52 fraction bits below its leading one.
RoundPos(n, e) ==
    IF n = 0 THEN [n |-> 0, e |-> e] ELSE RoundTo(n, e, 52 - Exp2(n, e))

DblNeg(x) == [n |-> -x.n, e |-> -x.e]

DblIsNeg(x) == x.n < 0 \/ (x.n = 0 /\ x.e < 0)

RoundDbl(x) ==
    IF DblIsNeg(x) THEN DblNeg(RoundPos(-x.n, -x.e)) ELSE RoundPos(x.n, x.e)

\* float("12.34"): the double nearest to a decimal of n pence.
Double(n) == RoundDbl([n |-> n, e |-> 0])

\* x + y, x - y, abs(x), x > y of doubles
DblAdd(x, y) == RoundDbl([n |-> x.n + y.n, e |-> x.e + y.e])

DblSub(x, y) == RoundDbl([n |-> x.n - y.n, e |-> x.e - y.e])

DblAbs(x) == IF DblIsNeg(x) THEN DblNeg(x) ELSE x

DblGt(x, y) == x.n > y.n \/ (x.n = y.n /\ x.e > y.e)

\* x or 0
OrZero(o) == IF TruthyNum(o) THEN o[1] ELSE 0

\* sum(t.paid_in or 0 for t in transactions): from 0, left to right
RECURSIVE SumPaidIn(_)
SumPaidIn(txs) ==
    IF Len(txs) = 0 THEN Double(0)
    ELSE DblAdd(SumPaidIn(SubSeq(txs, 1, Len(txs) - 1)),
                Double(OrZero(txs[Len(txs)].paid_in)))

RECURSIVE SumPaidOut(_)
SumPaidOut(txs) ==
    IF Len(txs) = 0 THEN Double(0)
    ELSE DblAdd(SumPaidOut(SubSeq(txs, 1, Len(txs) - 1)),
                Double(OrZero(txs[Len(txs)].paid_out)))

Abs(n) == IF n < 0 THEN -n ELSE n

\* tolerance = 0.02, in pence
tolerance == 2

\* abs(a - b) > tolerance, of doubles
Exceeds(a, b) == DblGt(DblAbs(DblSub(a, b)), Double(tolerance))

\* expected_closing = summary.opening_balance + total_in - total_out
ExpectedClosing(total_in, total_out, s) ==
    DblSub(DblAdd(Double(s.opening_balance), total_in), total_out)

\* The comparisons without the one of total_out.
Compare_NoOut(total_in, total_out, s) ==
    (IF Exceeds(total_in, Double(s.payments_in))
     THEN <<"Payments In mismatch">> ELSE <<>>)
    \o (IF Exceeds(ExpectedClosing(total_in, total_out, s),
                   Double(s.closing_balance))
        THEN <<"Balance calculation">> ELSE <<>>)

\* The messages of the three comparisons of the totals with the summary s.
Compare(total_in, total_out, s) ==
    (IF Exceeds(total_in, Double(s.payments_in))
     THEN <<"Payments In mismatch">> ELSE <<>>)
    \o (IF Exceeds(total_out, Double(s.payments_out))
        THEN <<"Payments Out mismatch">> ELSE <<>>)
    \o (IF Exceeds(ExpectedClosing(total_in, total_out, s),
                   Double(s.closing_balance))
        THEN <<"Balance calculation">> ELSE <<>>)

\* The totals compared without the comparison of total_out.
Mismatches_NoOut(txs, s) == Compare_NoOut(SumPaidIn(txs), SumPaidOut(txs), s)

\* The messages of the comparisons of the transactions with the summary s.
Mismatches(txs, s) == Compare(SumPaidIn(txs), SumPaidOut(txs), s)

\* validate_transactions ending with "return True, errors".
validate_transactions_AlwaysValid(txs, summary) ==
    IF Len(txs) = 0
    THEN [valid |-> FALSE, errors |-> <<"No transactions extracted">>]
    ELSE IF summary = None
    THEN [valid |-> TRUE,
          errors |-> <<"Could not extract statement summary for validation">>]
    ELSE [valid |-> TRUE, errors |-> Mismatches(txs, summary[1])]

\* validate_transactions(transactions, summary): [valid, errors]. A message
\* is modelled by its fixed leading words.
validate_transactions(txs, summary) ==
    IF Len(txs) = 0
    THEN [valid |-> FALSE, errors |-> <<"No transactions extracted">>]
    ELSE IF summary = None
    THEN [valid |-> TRUE,
          errors |-> <<"Could not extract statement summary for validation">>]
    ELSE LET errors == Mismatches(txs, summary[1])
         IN  [valid |-> Len(errors) = 0, errors |-> errors]

(***************************************************************************)
(* The documents. A page of the PDF is the words page.extract_words()      *)
(* gives, each [x0, top, text], and the text page.extract_text() gives.    *)
(***************************************************************************)
W(x0, top, text) == [x0 |-> x0, top |-> top, text |-> text]

\* A page with nothing on it.
PageBlank == [words |-> <<>>, text |-> ""]

\* The first sheet: a header line holding SORTCODE (with a payment-type
\* token and a paid-out amount on it), the three lines of the account
\* summary, the balance-brought-forward line (with a date and a balance on
\* it) and the date line of the first day.
PageFirst ==
    [words |-> <<W(30, 3000, "5"), W(45, 3000, "Jan"), W(70, 3000, "24"),
                 W(30, 2001, "4"), W(45, 2001, "Jan"), W(70, 2001, "24"),
                 W(150, 2000, "BALANCE"), W(200, 2000, "BROUGHT"),
                 W(250, 2000, "FORWARD"), W(520, 2000, "100.00"),
                 W(110, 1000, "DD"), W(150, 1000, "Sortcode"),
                 W(360, 1000, "9.99"),
                 W(300, 1100, "OpeningBalance"), W(440, 1100, "100.00"),
                 W(300, 1200, "Payments"), W(350, 1200, "Out"),
                 W(440, 1200, "12.50"),
                 W(300, 1300, "ClosingBalance"), W(440, 1300, "87.50")>>,
     text  |-> "DD Sortcode 9.99\nOpeningBalance £100.00\nPayments Out 12.50\nClosingBalance £87.50\n4 Jan 24 BALANCE BROUGHT FORWARD 100.00\n5 Jan 24"]

\* A date on a line of its own.
PageDate ==
    [words |-> <<W(30, 3000, "5"), W(45, 3000, "Jan"), W(70, 3000, "24")>>,
     text  |-> "5 Jan 24"]

\* A direct debit on one line, its words out of order and off the baseline.
PageDD ==
    [words |-> <<W(360, 3104, "12.50"), W(150, 3098, "Direct"),
                 W(110, 3100, "DD"), W(230, 3101, "ABC"),
                 W(190, 3096, "Debit")>>,
     text  |-> "DD Direct Debit ABC 12.50"]

\* A credit with its own, earlier, date and a balance.
PageCR ==
    [words |-> <<W(30, 3200, "3"), W(45, 3200, "Jan"), W(70, 3200, "24"),
                 W(110, 3200, "cr"), W(150, 3200, "Salary"),
                 W(440, 3200, "1,000.00"), W(520, 3200, "1,100.00")>>,
     text  |-> "3 Jan 24 cr Salary 1,000.00 1,100.00"]

\* A card payment whose amount comes on the continuation line; the second
\* line is listed first.
PageVIS ==
    [words |-> <<W(150, 3400, "London"), W(360, 3400, "7.25"),
                 W(110, 3300, "VIS"), W(150, 3300, "Shop")>>,
     text  |-> "VIS Shop\nLondon 7.25"]

\* An anchor line whose paid-out amount is 0.00.
PageZero ==
    [words |-> <<W(110, 3500, "DD"), W(150, 3500, "Waived"),
                 W(360, 3500, "0.00")>>,
     text  |-> "DD Waived 0.00"]

\* The balance-carried-forward line.
PageCarried ==
    [words |-> <<W(150, 7000, "BALANCE"), W(200, 7000, "CARRIED"),
                 W(250, 7000, "FORWARD"), W(520, 7000, "87.50")>>,
     text  |-> "BALANCE CARRIED FORWARD 87.50"]

\* A line of description only.
PageDesc ==
    [words |-> <<W(150, 3600, "REF123")>>,
     text  |-> "REF123"]

\* A line holding a paid-in amount only.
PageAmt ==
    [words |-> <<W(440, 3700, "5.00")>>,
     text  |-> "5.00"]

\* An anchor line with no amount.
PageAnchor ==
    [words |-> <<W(110, 3900, "ATM"), W(150, 3900, "Cash")>>,
     text  |-> "ATM Cash"]

\* A direct debit of one penny.
PagePenny ==
    [words |-> <<W(110, 3800, "DD"), W(150, 3800, "Fee"),
                 W(360, 3800, "0.01")>>,
     text  |-> "DD Fee 0.01"]

\* A sheet whose summary has no Payments Out label, with the date line of
\* the first day.
PageLabels ==
    [words |-> <<W(30, 3000, "5"), W(45, 3000, "Jan"), W(70, 3000, "24")>>,
     text  |-> "Opening Balance 100.00\nClosing Balance 87.50\nPayments In 0.00\n5 Jan 24"]

Pages ==
    {PageBlank, PageFirst, PageDate, PageDD, PageCR, PageVIS, PageZero,
     PageCarried, PageDesc, PageAmt, PageAnchor}

(***************************************************************************)
(* State.                                                                  *)
(***************************************************************************)
VARIABLES
    pc,                         \* where parse is
    file,                       \* the target: [exists, is_pdf, opens]
    n_pages,                    \* pages of the PDF read so far
    n_raised,                   \* pages on which the reader raised
    pages_words,                \* _extract_words_and_text: words per entry
    pages_text,                 \* _extract_words_and_text: text per entry
    result,                     \* the ParseResult
    todo,                       \* pages "for page_idx, words in" has to take
    page_idx,                   \* pages it has taken
    lines,                      \* lines of the current page not yet processed
    transactions,               \* extract_transactions_from_words: the list
    errors,                     \* extract_transactions_from_words: errors
    extracted,                  \* what extract_transactions_from_words returned
    validation,                 \* what validate_transactions returned to parse
    current_date,
    current_payment_type,
    current_description_parts,
    current_paid_out,
    current_paid_in,
    current_balance,
    parses,                     \* the parses running side by side, each
                                \* with the locals of its own call
    all_transactions,           \* generate_combined_csv: its argument
    combined,                   \* generate_combined_csv: the sorted list
    csv_content                 \* generate_combined_csv: what it returned

readVars == <<n_pages, n_raised, pages_words, pages_text>>

accVars ==
    <<current_date, current_payment_type, current_description_parts,
      current_paid_out, current_paid_in, current_balance>>

extractVars == <<todo, page_idx, lines, transactions, errors, extracted>>

csvVars == <<all_transactions, combined, csv_content>>

sideVars == <<parses, csvVars>>

vars ==
    <<pc, file, readVars, result, validation, extractVars, accVars,
      sideVars>>

(***************************************************************************)
(* Transaction assembler.                                                  *)
(***************************************************************************)
\* The accumulator and the list that save_transaction closes over.
Acc ==
    [transactions              |-> transactions,
     current_date              |-> current_date,
     current_payment_type      |-> current_payment_type,
     current_description_parts |-> current_description_parts,
     current_paid_out          |-> current_paid_out,
     current_paid_in           |-> current_paid_in,
     current_balance           |-> current_balance]

\* save_transaction's condition without its payment-type test.
IsValid_NoType(a) ==
    /\ TruthyDate(a.current_date)
    /\ (TruthyNum(a.current_paid_out) \/ TruthyNum(a.current_paid_in))

\* save_transaction's condition testing the amounts with "is not None".
IsValid_NotNone(a) ==
    /\ TruthyDate(a.current_date)
    /\ TruthyStr(a.current_payment_type)
    /\ (a.current_paid_out # None \/ a.current_paid_in # None)

\* The condition of save_transaction's if.
IsValid(a) ==
    /\ TruthyDate(a.current_date)
    /\ TruthyStr(a.current_payment_type)
    /\ (TruthyNum(a.current_paid_out) \/ TruthyNum(a.current_paid_in))

\* The Transaction save_transaction builds. Its date and payment_type are
\* kept as the optional values the accumulator holds.
MakeTransaction(a) ==
    [date         |-> a.current_date,
     payment_type |-> a.current_payment_type,
     description  |-> JoinSpace(a.current_description_parts),
     paid_out     |-> a.current_paid_out,
     paid_in      |-> a.current_paid_in,
     balance      |-> a.current_balance]

\* save_transaction emitting nothing.
save_transaction_NoEmit(a) ==
    [a EXCEPT
       !.current_description_parts = <<>>,
       !.current_paid_out = None,
       !.current_paid_in = None,
       !.current_balance = None]

\* save_transaction resetting the payment type as well.
save_transaction_ClearsType(a) ==
    [a EXCEPT
       !.transactions = IF IsValid(a) THEN Append(@, MakeTransaction(a))
                        ELSE @,
       !.current_payment_type = None,
       !.current_description_parts = <<>>,
       !.current_paid_out = None,
       !.current_paid_in = None,
       !.current_balance = None]

save_transaction(a) ==
    [a EXCEPT
       !.transactions = IF IsValid(a) THEN Append(@, MakeTransaction(a))
                        ELSE @,
       !.current_description_parts = <<>>,
       !.current_paid_out = None,
       !.current_paid_in = None,
       !.current_balance = None]

\* "if len(date_parts) == 3" that sets the date and saves nothing.
DateStep_NoSave(a, f) ==
    IF Len(f.date_parts) = 3
    THEN [a EXCEPT
            !.current_date = parse_date_parts(f.date_parts[1],
                                              f.date_parts[2],
                                              f.date_parts[3])]
    ELSE a

\* "if len(date_parts) == 3" that keeps the date when the tokens give none.
DateStep_KeepDate(a, f) ==
    IF Len(f.date_parts) = 3
    THEN LET d == parse_date_parts(f.date_parts[1], f.date_parts[2],
                                   f.date_parts[3])
         IN  [save_transaction(a) EXCEPT
                !.current_date = IF d = None THEN @ ELSE d]
    ELSE a

\* "if len(date_parts) == 3": save, then set the date.
DateStep(a, f) ==
    IF Len(f.date_parts) = 3
    THEN [save_transaction(a) EXCEPT
            !.current_date = parse_date_parts(f.date_parts[1],
                                              f.date_parts[2],
                                              f.date_parts[3])]
    ELSE a

\* "if payment_type" that never saves the transaction in flight.
PaymentTypeStep_NoSave(a, f) ==
    IF TruthyStr(f.payment_type)
    THEN [a EXCEPT !.current_payment_type = f.payment_type]
    ELSE a

\* "if payment_type" that saves whenever a payment type is active.
PaymentTypeStep_AlwaysSave(a, f) ==
    IF TruthyStr(f.payment_type)
    THEN [(IF TruthyStr(a.current_payment_type)
           THEN save_transaction(a) ELSE a)
          EXCEPT !.current_payment_type = f.payment_type]
    ELSE a

\* "if payment_type": save when one is active with an amount, then set it.
PaymentTypeStep(a, f) ==
    IF TruthyStr(f.payment_type)
    THEN [(IF /\ TruthyStr(a.current_payment_type)
              /\ (TruthyNum(a.current_paid_out)
                    \/ TruthyNum(a.current_paid_in))
           THEN save_transaction(a) ELSE a)
          EXCEPT !.current_payment_type = f.payment_type]
    ELSE a

\* "if description_words": extend, whether a payment type is active or not.
DescriptionStep_Always(a, f) ==
    IF Len(f.description_words) > 0
    THEN [a EXCEPT !.current_description_parts = @ \o f.description_words]
    ELSE a

\* "if description_words and current_payment_type": extend.
DescriptionStep(a, f) ==
    IF Len(f.description_words) > 0 /\ TruthyStr(a.current_payment_type)
    THEN [a EXCEPT !.current_description_parts = @ \o f.description_words]
    ELSE a

\* The three "is not None" assignments.
AmountStep(a, f) ==
    [a EXCEPT
       !.current_paid_out = IF f.paid_out # None THEN f.paid_out ELSE @,
       !.current_paid_in  = IF f.paid_in # None THEN f.paid_in ELSE @,
       !.current_balance  = IF f.balance # None THEN f.balance ELSE @]

\* A balance-carried-forward line that leaves the payment type active.
CarriedStep_KeepType(a) == save_transaction(a)

\* A balance-carried-forward line.
CarriedStep(a) ==
    [save_transaction(a) EXCEPT !.current_payment_type = None]

\* The loop body testing the line's text without upper-casing it.
LineStep_NoUpper(a, line_words) ==
    LET line_text == JoinSpace(Texts(line_words))
    IN  IF IsNoise(line_text) THEN a
        ELSE IF IsBroughtForward(line_text) THEN a
        ELSE IF IsCarriedForward(line_text) THEN CarriedStep(a)
        ELSE LET f == ClassifyLine(line_words)
             IN  AmountStep(
                   DescriptionStep(
                     PaymentTypeStep(DateStep(a, f), f), f), f)

\* One pass of the body of "for y in sorted(lines.keys())".
LineStep(a, line_words) ==
    LET line_text == LineText(line_words)
    IN  IF IsNoise(line_text) THEN a
        ELSE IF IsBroughtForward(line_text) THEN a
        ELSE IF IsCarriedForward(line_text) THEN CarriedStep(a)
        ELSE LET f == ClassifyLine(line_words)
             IN  AmountStep(
                   DescriptionStep(
                     PaymentTypeStep(DateStep(a, f), f), f), f)

\* transactions.sort(key=lambda t: t.date): stable.
\* An insertion that puts a transaction before those of its own date.
RECURSIVE InsertByDate_Unstable(_, _)
InsertByDate_Unstable(sorted, t) ==
    IF Len(sorted) = 0 THEN <<t>>
    ELSE IF DateKey(sorted[Len(sorted)].date[1]) < DateKey(t.date[1])
    THEN Append(sorted, t)
    ELSE Append(InsertByDate_Unstable(SubSeq(sorted, 1, Len(sorted) - 1), t),
                sorted[Len(sorted)])

RECURSIVE InsertByDate(_, _)
InsertByDate(sorted, t) ==
    IF Len(sorted) = 0 THEN <<t>>
    ELSE IF DateKey(sorted[Len(sorted)].date[1]) <= DateKey(t.date[1])
    THEN Append(sorted, t)
    ELSE Append(InsertByDate(SubSeq(sorted, 1, Len(sorted) - 1), t),
                sorted[Len(sorted)])

RECURSIVE SortByDate(_)
SortByDate(txs) ==
    IF Len(txs) = 0 THEN <<>>
    ELSE InsertByDate(SortByDate(SubSeq(txs, 1, Len(txs) - 1)),
                      txs[Len(txs)])

SetAcc(a) ==
    /\ transactions' = a.transactions
    /\ current_date' = a.current_date
    /\ current_payment_type' = a.current_payment_type
    /\ current_description_parts' = a.current_description_parts
    /\ current_paid_out' = a.current_paid_out
    /\ current_paid_in' = a.current_paid_in
    /\ current_balance' = a.current_balance

(***************************************************************************)
(* HSBCStatementParser.parse as a state machine.                           *)
(***************************************************************************)
EmptyResult ==
    [success |-> FALSE, transactions |-> <<>>, summary |-> None,
     errors |-> <<>>, warnings |-> <<>>, page_count |-> 0]

\* No parses side by side, and no call of generate_combined_csv.
NoParses == parses = <<>>

NoCsv ==
    /\ all_transactions = <<>>
    /\ combined = <<>>
    /\ csv_content = None

\* The locals of extract_transactions_from_words as the call starts.
InitExtract ==
    /\ todo = <<>>
    /\ page_idx = 0
    /\ lines = <<>>
    /\ transactions = <<>>
    /\ errors = <<>>
    /\ extracted = None
    /\ current_date = None
    /\ current_payment_type = None
    /\ current_description_parts = <<>>
    /\ current_paid_out = None
    /\ current_paid_in = None
    /\ current_balance = None

Init ==
    /\ pc = "start"
    /\ file \in {f \in [exists : BOOLEAN, is_pdf : BOOLEAN, opens : BOOLEAN] :
                    f.opens => f.exists}
    /\ n_pages = 0
    /\ n_raised = 0
    /\ pages_words = <<>>
    /\ pages_text = <<>>
    /\ result = EmptyResult
    /\ validation = None
    /\ NoParses
    /\ NoCsv
    /\ InitExtract

\* The two early returns of parse.
CheckFile ==
    /\ pc = "start"
    /\ IF ~file.exists
       THEN /\ result' = [result EXCEPT !.errors = Append(@, "File not found")]
            /\ pc' = "returned"
       ELSE IF ~file.is_pdf
       THEN /\ result' = [result EXCEPT !.errors = Append(@, "Not a PDF file")]
            /\ pc' = "returned"
       ELSE /\ result' = result
            /\ pc' = "open"
    /\ UNCHANGED <<file, sideVars, validation, readVars, extractVars, accVars>>

\* pdfplumber.open: a file that is no PDF document raises, and parse's
\* "except Exception" records the error.
OpenPdf ==
    /\ pc = "open"
    /\ IF file.opens
       THEN /\ result' = result
            /\ pc' = "read"
       ELSE /\ result' = [result EXCEPT
                            !.errors = Append(@, "Error parsing PDF")]
            /\ pc' = "returned"
    /\ UNCHANGED <<file, sideVars, validation, readVars, extractVars, accVars>>

\* One pass of "for page_num, page in enumerate(pdf.pages, 1)" that raises
\* nothing.
ReadPage(p) ==
    /\ pc = "read"
    /\ n_pages < MaxPages
    /\ n_pages' = n_pages + 1
    /\ pages_words' = Append(pages_words, p.words)
    /\ pages_text' = Append(pages_text, p.text)
    /\ UNCHANGED <<pc, file, sideVars, validation, n_raised, result,
                   extractVars, accVars>>

\* One pass in which page.extract_words() raises.
ReadPageWordsRaise ==
    /\ pc = "read"
    /\ n_pages < MaxPages
    /\ n_raised < MaxRaise
    /\ n_pages' = n_pages + 1
    /\ n_raised' = n_raised + 1
    /\ pages_words' = Append(pages_words, <<>>)
    /\ pages_text' = Append(pages_text, "")
    /\ UNCHANGED <<pc, file, sideVars, validation, result, extractVars,
                   accVars>>

\* One pass in which page.extract_text() raises: the words are appended
\* already, and the handler appends an empty list and an empty text.
ReadPageTextRaise(p) ==
    /\ pc = "read"
    /\ n_pages < MaxPages
    /\ n_raised < MaxRaise
    /\ n_pages' = n_pages + 1
    /\ n_raised' = n_raised + 1
    /\ pages_words' = Append(Append(pages_words, p.words), <<>>)
    /\ pages_text' = Append(pages_text, "")
    /\ UNCHANGED <<pc, file, sideVars, validation, result, extractVars,
                   accVars>>

\* "len(result.errors) == 0" alone.
ParseSuccess_NoCount(errs, txs) == Len(errs) = 0

\* result.success = len(result.errors) == 0 and len(transactions) > 0
ParseSuccess(errs, txs) == Len(errs) = 0 /\ Len(txs) > 0

\* The PDF has no further page: page_count, the no-content return,
\* extract_summary on the joined text, and the call of
\* extract_transactions_from_words(pages_words).
FinishRead ==
    /\ pc = "read"
    /\ IF Len(pages_words) = 0
       THEN /\ result' = [result EXCEPT
                            !.page_count = Len(pages_words),
                            !.errors = Append(@,
                               "No content could be extracted from PDF")]
            /\ pc' = "returned"
            /\ todo' = todo
       ELSE /\ result' = [result EXCEPT
                            !.page_count = Len(pages_words),
                            !.summary =
                               extract_summary(JoinLines(pages_text))]
            /\ pc' = "extract"
            /\ todo' = pages_words
    /\ UNCHANGED <<file, sideVars, validation, readVars, page_idx, lines,
                   transactions, errors, extracted, accVars>>

\* A caller of extract_transactions_from_words that hands it any pages:
\* the next page of its argument.
GivePage(p) ==
    /\ pc = "extract"
    /\ lines = <<>>
    /\ todo = <<>>
    /\ page_idx < MaxWordPages
    /\ todo' = <<p.words>>
    /\ UNCHANGED <<pc, file, sideVars, validation, readVars, result,
                   page_idx, lines, transactions, errors, extracted, accVars>>

\* A loop head that starts every page with an empty accumulator.
AtPageStart_Reset(a) ==
    [a EXCEPT
       !.current_date = None,
       !.current_payment_type = None,
       !.current_description_parts = <<>>,
       !.current_paid_out = None,
       !.current_paid_in = None,
       !.current_balance = None]

\* What the head of "for page_idx, words in enumerate(pages_words)" does to
\* the accumulator and the list, which are locals of the function and not
\* of the loop body: nothing.
AtPageStart(a) == a

\* "for page_idx, words in enumerate(pages_words)": the next page's lines,
\* grouped in a dictionary of the page's own.
NextPage ==
    /\ pc = "extract"
    /\ lines = <<>>
    /\ todo # <<>>
    /\ todo' = Tail(todo)
    /\ page_idx' = page_idx + 1
    /\ lines' = GroupLines(Head(todo))
    /\ SetAcc(AtPageStart(Acc))
    /\ UNCHANGED <<pc, file, sideVars, validation, readVars, result,
                   errors, extracted>>

\* "for y in sorted(lines.keys())": the next line of the page.
ProcessLine ==
    /\ pc = "extract"
    /\ lines # <<>>
    /\ SetAcc(LineStep(Acc, Head(lines)))
    /\ lines' = Tail(lines)
    /\ UNCHANGED <<pc, file, sideVars, validation, readVars, result, todo,
                   page_idx, errors, extracted>>

\* After the last page: the last save_transaction, the sort and the return.
\* The variable transactions keeps the list as it was before the sort, the
\* finalization sequence; extracted holds the sorted list that is returned.
FinishExtract ==
    /\ pc = "extract"
    /\ lines = <<>>
    /\ todo = <<>>
    /\ SetAcc(save_transaction(Acc))
    /\ extracted' =
         Some([transactions |-> SortByDate(save_transaction(Acc).transactions),
               errors       |-> errors])
    /\ pc' = "extracted"
    /\ UNCHANGED <<file, sideVars, validation, readVars, result, todo,
                   page_idx, lines, errors>>

\* Back in parse: the result's transactions and errors, the validation
\* ("if result.summary: ...") and "result.success = ...".
Validate ==
    /\ pc = "extracted"
    /\ LET txs == extracted[1].transactions
           errs == result.errors \o extracted[1].errors
           v == validate_transactions(txs, result.summary)
       IN  /\ result' = [result EXCEPT
                           !.transactions = txs,
                           !.errors = errs,
                           !.warnings = IF result.summary # None /\ ~v.valid
                                        THEN @ \o v.errors ELSE @,
                           !.success = ParseSuccess(errs, txs)]
           /\ validation' = IF result.summary # None THEN Some(v) ELSE None
    /\ pc' = "returned"
    /\ UNCHANGED <<file, sideVars, readVars, extractVars, accVars>>

Next ==
    \/ CheckFile
    \/ OpenPdf
    \/ \E p \in Pages : ReadPage(p)
    \/ ReadPageWordsRaise
    \/ \E p \in Pages : ReadPageTextRaise(p)
    \/ FinishRead
    \/ NextPage
    \/ ProcessLine
    \/ FinishExtract
    \/ Validate

\* parse on any target.
Spec == Init /\ [][Next]_vars

(***************************************************************************)
(* extract_transactions_from_words called on any pages_words.              *)
(***************************************************************************)
InitWords ==
    /\ pc = "extract"
    /\ file = [exists |-> TRUE, is_pdf |-> TRUE, opens |-> TRUE]
    /\ n_pages = 0
    /\ n_raised = 0
    /\ pages_words = <<>>
    /\ pages_text = <<>>
    /\ result = EmptyResult
    /\ validation = None
    /\ NoParses
    /\ NoCsv
    /\ InitExtract

NextWords ==
    \/ \E p \in Pages : GivePage(p)
    \/ NextPage
    \/ ProcessLine
    \/ FinishExtract

SpecWords == InitWords /\ [][NextWords]_vars

(***************************************************************************)
(* validate_transactions alone: the call of parse on a transaction list    *)
(* and a summary taken from bounded sets.                                  *)
(***************************************************************************)
\* A transaction of 3 Jan 24 with the given amounts.
Tx(payment_type, paid_out, paid_in) ==
    [date |-> Some([year |-> 2024, month |-> 1, day |-> 3]),
     payment_type |-> Some(payment_type),
     description |-> "X",
     paid_out |-> paid_out,
     paid_in |-> paid_in,
     balance |-> None]

ValidatedTransactions ==
    {Tx("CR", None, Some(100)), Tx("CR", None, Some(102)),
     Tx("CR", None, Some(103)), Tx("DD", Some(100), None),
     Tx("DD", Some(102), None)}

ValidatedLists ==
    UNION {[1..k -> ValidatedTransactions] : k \in 1..MaxValidated}

ValidatedSummaries ==
    [opening_balance : {0, 100}, payments_in : {100, 203},
     payments_out : {0, 100}, closing_balance : {0, 100, 102}]

InitValidate ==
    /\ pc = "extracted"
    /\ file = [exists |-> TRUE, is_pdf |-> TRUE, opens |-> TRUE]
    /\ n_pages = 1
    /\ n_raised = 0
    /\ pages_words = <<<<>>>>
    /\ pages_text = <<"">>
    /\ \E s \in ValidatedSummaries :
           result = [EmptyResult EXCEPT !.page_count = 1, !.summary = Some(s)]
    /\ validation = None
    /\ NoParses
    /\ NoCsv
    /\ todo = <<>>
    /\ page_idx = 1
    /\ lines = <<>>
    /\ \E txs \in ValidatedLists :
           /\ transactions = txs
           /\ extracted = Some([transactions |-> txs, errors |-> <<>>])
    /\ errors = <<>>
    /\ current_date = None
    /\ current_payment_type = None
    /\ current_description_parts = <<>>
    /\ current_paid_out = None
    /\ current_paid_in = None
    /\ current_balance = None

NextValidate == Validate

SpecValidate == InitValidate /\ [][NextValidate]_vars

(***************************************************************************)
(* extract_summary alone: parse on a document whose pages hold no words    *)
(* and whose texts are taken from a bounded set.                           *)
(***************************************************************************)
SummaryTexts ==
    {"Opening Balance £1,000.00", "ClosingBalance 0.00",
     "closing balance\n£987.50", "Payments In 20.00", "payment out £3.00",
     "Payments In £ 4.00", "Opening Balance 1.0"}

InitSummary ==
    /\ pc = "read"
    /\ file = [exists |-> TRUE, is_pdf |-> TRUE, opens |-> TRUE]
    /\ \E k \in 1..MaxTexts :
           /\ n_pages = k
           /\ pages_words = [i \in 1..k |-> <<>>]
           /\ pages_text \in [1..k -> SummaryTexts]
    /\ n_raised = 0
    /\ result = EmptyResult
    /\ validation = None
    /\ NoParses
    /\ NoCsv
    /\ InitExtract

NextSummary == FinishRead

SpecSummary == InitSummary /\ [][NextSummary]_vars

(***************************************************************************)
(* parse on the documents whose summary lacks the Payments Out label: the  *)
(* sheet PageLabels followed by pages of transactions.                     *)
(***************************************************************************)
OutPages == {PageDD, PageCR, PagePenny, PageZero, PageAmt}

InitNoPaymentsOut ==
    /\ pc = "read"
    /\ file = [exists |-> TRUE, is_pdf |-> TRUE, opens |-> TRUE]
    /\ \E k \in 1..MaxOutPages : \E doc \in [1..k -> OutPages] :
           /\ n_pages = k + 1
           /\ pages_words = <<PageLabels.words>> \o [i \in 1..k |-> doc[i].words]
           /\ pages_text = <<PageLabels.text>> \o [i \in 1..k |-> doc[i].text]
    /\ n_raised = 0
    /\ result = EmptyResult
    /\ validation = None
    /\ NoParses
    /\ NoCsv
    /\ InitExtract

NextNoPaymentsOut ==
    \/ FinishRead
    \/ NextPage
    \/ ProcessLine
    \/ FinishExtract
    \/ Validate

SpecNoPaymentsOut == InitNoPaymentsOut /\ [][NextNoPaymentsOut]_vars

(***************************************************************************)
(* Parses side by side. The accumulator, the list of transactions and the  *)
(* loop position of extract_transactions_from_words are locals of the      *)
(* call, so each parse has its own; a step of the model is one pass of the *)
(* body of a loop of one of the parses.                                    *)
(***************************************************************************)
\* No parse is at work in parse().
Idle ==
    /\ pc = "idle"
    /\ file = [exists |-> TRUE, is_pdf |-> TRUE, opens |-> TRUE]
    /\ n_pages = 0
    /\ n_raised = 0
    /\ pages_words = <<>>
    /\ pages_text = <<>>
    /\ result = EmptyResult
    /\ validation = None
    /\ InitExtract

idleVars ==
    <<pc, file, readVars, result, validation, extractVars, accVars>>

\* The accumulator and the list as a call starts.
EmptyAcc ==
    [transactions              |-> <<>>,
     current_date              |-> None,
     current_payment_type      |-> None,
     current_description_parts |-> <<>>,
     current_paid_out          |-> None,
     current_paid_in           |-> None,
     current_balance           |-> None]

\* extract_transactions_from_words as a function of its argument: the
\* lines of a page, the pages, the last save and the sort.
RECURSIVE LinesFold(_, _)
LinesFold(a, ls) ==
    IF ls = <<>> THEN a ELSE LinesFold(LineStep(a, Head(ls)), Tail(ls))

RECURSIVE PagesFold(_, _)
PagesFold(a, pages) ==
    IF pages = <<>> THEN a
    ELSE PagesFold(LinesFold(a, GroupLines(Head(pages))), Tail(pages))

extract_transactions_from_words(words_of_pages) ==
    SortByDate(save_transaction(PagesFold(EmptyAcc, words_of_pages))
                 .transactions)

Parsers == {1, 2}

ParsePages == {PageCR, PageVIS}

\* The accumulator of the first parse, whichever parse asks.
OwnAcc_Shared(ps, i) == ps[1].acc

\* The accumulator a parse works on: the one of its own call.
OwnAcc(ps, i) == ps[i].acc

InitParses ==
    /\ Idle
    /\ NoCsv
    /\ \E docs \in [Parsers ->
                      UNION {[1..k -> ParsePages] : k \in 1..MaxParsePages}] :
           parses = [i \in Parsers |->
                       LET input == [k \in 1..Len(docs[i]) |->
                                        docs[i][k].words]
                       IN  [input     |-> input,
                            todo      |-> input,
                            lines     |-> <<>>,
                            acc       |-> EmptyAcc,
                            extracted |-> None]]

\* Parse i takes its next page.
ParseNextPage(i) ==
    /\ parses[i].extracted = None
    /\ parses[i].lines = <<>>
    /\ parses[i].todo # <<>>
    /\ parses' = [parses EXCEPT
                    ![i].todo = Tail(@),
                    ![i].lines = GroupLines(Head(parses[i].todo))]
    /\ UNCHANGED <<idleVars, csvVars>>

\* Parse i processes the next line of its page.
ParseLine(i) ==
    /\ parses[i].extracted = None
    /\ parses[i].lines # <<>>
    /\ parses' = [parses EXCEPT
                    ![i].acc = LineStep(OwnAcc(parses, i),
                                        Head(parses[i].lines)),
                    ![i].lines = Tail(@)]
    /\ UNCHANGED <<idleVars, csvVars>>

\* Parse i saves its last transaction, sorts and returns.
ParseFinish(i) ==
    /\ parses[i].extracted = None
    /\ parses[i].lines = <<>>
    /\ parses[i].todo = <<>>
    /\ LET a == save_transaction(OwnAcc(parses, i))
       IN  parses' = [parses EXCEPT
                        ![i].acc = a,
                        ![i].extracted = Some(SortByDate(a.transactions))]
    /\ UNCHANGED <<idleVars, csvVars>>

NextParses ==
    \E i \in Parsers :
        \/ ParseNextPage(i)
        \/ ParseLine(i)
        \/ ParseFinish(i)

SpecParses == InitParses /\ [][NextParses]_vars

(***************************************************************************)
(* The CSV generator. The content is the sequence of the rows written,     *)
(* each the sequence of its five fields.                                   *)
(***************************************************************************)
fieldnames == <<"Date", "Bank", "Description", "Income", "Expenses">>

DigitStr(d) == SubSeq("0123456789", d + 1, d + 1)

\* str(n) of an integer n >= 0
RECURSIVE IntStr(_)
IntStr(n) ==
    IF n < 10 THEN DigitStr(n) ELSE IntStr(n \div 10) \o DigitStr(n % 10)

\* n with two digits (%d, %m)
TwoDigits(n) == DigitStr((n \div 10) % 10) \o DigitStr(n % 10)

\* f"{x:.2f}" of the float next to n pence, n >= 0
FormatAmount(n) == IntStr(n \div 100) \o "." \o TwoDigits(n % 100)

\* date.strftime('%d/%m/%Y'), for a year of four digits
strftime(d) ==
    TwoDigits(d.day) \o "/" \o TwoDigits(d.month) \o "/" \o IntStr(d.year)

\* to_csv_row with no minus before the expenses.
to_csv_row_NoSign(tx) ==
    [Date        |-> strftime(tx.date[1]),
     Bank        |-> "hsbc",
     Description |-> Strip(tx.description),
     Income      |-> IF TruthyNum(tx.paid_in) /\ tx.paid_in[1] > 0
                     THEN Pound \o FormatAmount(tx.paid_in[1]) ELSE "",
     Expenses    |-> IF TruthyNum(tx.paid_out) /\ tx.paid_out[1] > 0
                     THEN Pound \o FormatAmount(tx.paid_out[1]) ELSE ""]

\* Transaction.to_csv_row
to_csv_row(tx) ==
    [Date        |-> strftime(tx.date[1]),
     Bank        |-> "hsbc",
     Description |-> Strip(tx.description),
     Income      |-> IF TruthyNum(tx.paid_in) /\ tx.paid_in[1] > 0
                     THEN Pound \o FormatAmount(tx.paid_in[1]) ELSE "",
     Expenses    |-> IF TruthyNum(tx.paid_out) /\ tx.paid_out[1] > 0
                     THEN "-" \o Pound \o FormatAmount(tx.paid_out[1])
                     ELSE ""]

\* writer.writerow(row): the fields in the order of fieldnames
writerow(row) ==
    <<row.Date, row.Bank, row.Description, row.Income, row.Expenses>>

\* generate_csv(transactions), with its header and no output path
generate_csv(txs) ==
    <<fieldnames>> \o [i \in 1..Len(txs) |-> writerow(to_csv_row(txs[i]))]

\* "combined.extend(tx_list)" for the first list only.
Flatten_First(tx_lists) ==
    IF tx_lists = <<>> THEN <<>> ELSE Head(tx_lists)

\* for tx_list in all_transactions: combined.extend(tx_list)
RECURSIVE Flatten(_)
Flatten(tx_lists) ==
    IF tx_lists = <<>> THEN <<>>
    ELSE Head(tx_lists) \o Flatten(Tail(tx_lists))

\* The list generate_combined_csv sorts and writes.
Combine(tx_lists) == SortByDate(Flatten(tx_lists))

generate_combined_csv(tx_lists) == generate_csv(Combine(tx_lists))

\* A transaction with the given date, description and amounts.
TxOn(day, month, year, payment_type, description, paid_out, paid_in) ==
    [date |-> Some([year |-> year, month |-> month, day |-> day]),
     payment_type |-> Some(payment_type),
     description |-> description,
     paid_out |-> paid_out,
     paid_in |-> paid_in,
     balance |-> None]

TxDebit == TxOn(5, 1, 2024, "DD", "Direct Debit ABC", Some(1250), None)

TxCredit == TxOn(3, 1, 2024, "CR", "Salary", None, Some(100000))

TxCard == TxOn(3, 1, 2024, "VIS", "Shop London", Some(725), Some(0))

TxOld == TxOn(12, 11, 2023, "BP", "Rent", Some(50005), None)

\* The transaction lists of the statements.
CsvLists ==
    {<<>>, <<TxCredit, TxDebit>>, <<TxCard, TxDebit>>, <<TxOld, TxCard>>}

InitCsv ==
    /\ Idle
    /\ NoParses
    /\ all_transactions \in
         UNION {[1..k -> CsvLists] : k \in 1..MaxLists}
    /\ combined = <<>>
    /\ csv_content = None

GenerateCombinedCsv ==
    /\ csv_content = None
    /\ combined' = Combine(all_transactions)
    /\ csv_content' = Some(generate_combined_csv(all_transactions))
    /\ UNCHANGED <<idleVars, parses, all_transactions>>

NextCsv == GenerateCombinedCsv

SpecCsv == InitCsv /\ [][NextCsv]_vars

(***************************************************************************)
(* extract_transactions_from_words on date lines: lines that hold a date,  *)
(* lines whose three date tokens are no date, and transactions under them. *)
(***************************************************************************)
\* Three date tokens that name a day the month does not have.
PageBadDate ==
    [words |-> <<W(30, 4000, "31"), W(45, 4000, "Feb"), W(70, 4000, "24")>>,
     text  |-> "31 Feb 24"]

\* Three day numbers.
PageDays ==
    [words |-> <<W(30, 4100, "5"), W(45, 4100, "6"), W(70, 4100, "7")>>,
     text  |-> "5 6 7"]

DatePages == {PageDate, PageCR, PageDD, PageVIS, PageBadDate, PageDays}

NextDates ==
    \/ \E p \in DatePages : GivePage(p)
    \/ NextPage
    \/ ProcessLine
    \/ FinishExtract

SpecDates == InitWords /\ [][NextDates]_vars

(***************************************************************************)
(* parse on documents of transaction lines: a date line, anchors with and  *)
(* without an amount or a date, lines of description or of an amount only, *)
(* and the balance-carried-forward line, each on a page of its own.        *)
(***************************************************************************)
DocPages ==
    {PageDate, PageDesc, PageDD, PageCR, PageCarried, PageAnchor, PageAmt}

InitDocs ==
    /\ pc = "read"
    /\ file = [exists |-> TRUE, is_pdf |-> TRUE, opens |-> TRUE]
    /\ \E k \in 1..MaxDocPages : \E doc \in [1..k -> DocPages] :
           /\ n_pages = k
           /\ pages_words = [i \in 1..k |-> doc[i].words]
           /\ pages_text = [i \in 1..k |-> doc[i].text]
    /\ n_raised = 0
    /\ result = EmptyResult
    /\ validation = None
    /\ NoParses
    /\ NoCsv
    /\ InitExtract

NextDocs ==
    \/ FinishRead
    \/ NextPage
    \/ ProcessLine
    \/ FinishExtract
    \/ Validate

SpecDocs == InitDocs /\ [][NextDocs]_vars

(***************************************************************************)
(* parse on documents that end with a candidate in flight. The code is     *)
(* sequential: once the loop over the pages is done, the statements behind *)
(* it, the last save_transaction, the sort and the return, are executed.   *)
(***************************************************************************)
EndPages == {PageDate, PageDD, PageVIS, PageZero, PageCarried}

InitEnd ==
    /\ pc = "read"
    /\ file = [exists |-> TRUE, is_pdf |-> TRUE, opens |-> TRUE]
    /\ \E k \in 1..MaxDocPages : \E doc \in [1..k -> EndPages] :
           /\ n_pages = k
           /\ pages_words = [i \in 1..k |-> doc[i].words]
           /\ pages_text = [i \in 1..k |-> doc[i].text]
    /\ n_raised = 0
    /\ result = EmptyResult
    /\ validation = None
    /\ NoParses
    /\ NoCsv
    /\ InitExtract

SpecEnd == InitEnd /\ [][NextDocs]_vars /\ WF_vars(FinishExtract)

(***************************************************************************)
(* The loop body of extract_transactions_from_words on any line: tokens of *)
(* every text shape at the edges of every band, sorted by x as the loop    *)
(* sorts them.                                                             *)
(***************************************************************************)
ClassifyXs == {30, 99, 100, 129, 130, 349, 350, 430, 510}

ClassifyTexts == {"5", "Jan", "2024", "DD", "Shop", "12.50"}

ClassifyTokens == [x : ClassifyXs, text : ClassifyTexts]

ClassifyLines ==
    {l \in UNION {[1..k -> ClassifyTokens] : k \in 1..MaxLineWords} :
        \A i \in 1..Len(l), j \in 1..Len(l) : i < j => l[i].x <= l[j].x}

InitClassify ==
    /\ pc = "extract"
    /\ file = [exists |-> TRUE, is_pdf |-> TRUE, opens |-> TRUE]
    /\ n_pages = 0
    /\ n_raised = 0
    /\ pages_words = <<>>
    /\ pages_text = <<>>
    /\ result = EmptyResult
    /\ validation = None
    /\ NoParses
    /\ NoCsv
    /\ todo = <<>>
    /\ page_idx = 1
    /\ \E l \in ClassifyLines : lines = <<l>>
    /\ transactions = <<>>
    /\ errors = <<>>
    /\ extracted = None
    /\ current_date = None
    /\ current_payment_type = None
    /\ current_description_parts = <<>>
    /\ current_paid_out = None
    /\ current_paid_in = None
    /\ current_balance = None

NextClassify ==
    \/ ProcessLine
    \/ FinishExtract

SpecClassify == InitClassify /\ [][NextClassify]_vars

(***************************************************************************)
(* extract_transactions_from_words on one page of any words whose vertical *)
(* offsets lie around 309.5 and 310.5.                                     *)
(***************************************************************************)
GroupTops == {3094, 3095, 3096, 3104, 3105, 3106}

GroupWords == {W(x0, top, text) : x0 \in {110, 150}, top \in GroupTops,
                                  text \in {"DD", "Shop"}}

InitGroup ==
    /\ pc = "extract"
    /\ file = [exists |-> TRUE, is_pdf |-> TRUE, opens |-> TRUE]
    /\ n_pages = 0
    /\ n_raised = 0
    /\ pages_words = <<>>
    /\ pages_text = <<>>
    /\ result = EmptyResult
    /\ validation = None
    /\ NoParses
    /\ NoCsv
    /\ \E k \in 1..MaxGroupWords : \E words \in [1..k -> GroupWords] :
           todo = <<words>>
    /\ page_idx = 0
    /\ lines = <<>>
    /\ transactions = <<>>
    /\ errors = <<>>
    /\ extracted = None
    /\ current_date = None
    /\ current_payment_type = None
    /\ current_description_parts = <<>>
    /\ current_paid_out = None
    /\ current_paid_in = None
    /\ current_balance = None

NextGroup ==
    \/ NextPage
    \/ ProcessLine
    \/ FinishExtract

SpecGroup == InitGroup /\ [][NextGroup]_vars

(***************************************************************************)
(* Properties.                                                             *)
(***************************************************************************)
\* The transactions finalized so far and those returned.
AllTransactions ==
    {transactions[i] : i \in 1..Len(transactions)}
        \cup (IF extracted = None THEN {}
              ELSE {extracted[1].transactions[i] :
                       i \in 1..Len(extracted[1].transactions)})

\* A candidate, or a transaction, that lacks a date, a payment type or
\* both amounts.
Lacking(date, payment_type, paid_out, paid_in) ==
    \/ date = None
    \/ payment_type = None
    \/ (paid_out = None /\ paid_in = None)

\* C1: every transaction finalized or returned has a date, a payment type
\* and at least one of paid_out/paid_in; no step emits a candidate that
\* lacks one of the three (the list stays as it is), and the errors list,
\* also as returned, stays empty.
C1_FinalizeRule ==
    [][/\ Lacking(current_date, current_payment_type,
                  current_paid_out, current_paid_in)
            => transactions' = transactions
       /\ \A t \in AllTransactions' :
              ~Lacking(t.date, t.payment_type, t.paid_out, t.paid_in)
       /\ errors' = <<>>
       /\ extracted' # None => extracted'[1].errors = <<>>]_vars

\* C1 witness: the input has ended with a transaction emitted and with a
\* candidate in flight that has a date and an amount and no payment type.
C1_Witness ==
    /\ pc = "extract" /\ lines = <<>> /\ todo = <<>>
    /\ Len(transactions) >= 1
    /\ current_date # None
    /\ current_payment_type = None
    /\ current_paid_in # None

\* C2: every transaction finalized or returned has paid_in or paid_out
\* strictly positive, and neither is negative.
C2_PositiveAmount ==
    \A t \in AllTransactions :
        /\ \/ (t.paid_in # None /\ t.paid_in[1] > 0)
           \/ (t.paid_out # None /\ t.paid_out[1] > 0)
        /\ t.paid_in # None => t.paid_in[1] >= 0
        /\ t.paid_out # None => t.paid_out[1] >= 0

\* C2 witness: a returned transaction whose paid-out amount is 0.00.
C2_Witness ==
    /\ pc = "extracted"
    /\ \E i \in 1..Len(extracted[1].transactions) :
           extracted[1].transactions[i].paid_out = Some(0)

\* The sums of the amounts as decimals, in pence.
RECURSIVE TotalIn(_)
TotalIn(txs) ==
    IF Len(txs) = 0 THEN 0
    ELSE OrZero(Head(txs).paid_in) + TotalIn(Tail(txs))

RECURSIVE TotalOut(_)
TotalOut(txs) ==
    IF Len(txs) = 0 THEN 0
    ELSE OrZero(Head(txs).paid_out) + TotalOut(Tail(txs))

\* The three equalities of the summary within the tolerance.
WithinTolerance(txs, s) ==
    /\ Abs(TotalIn(txs) - s.payments_in) <= 2
    /\ Abs(TotalOut(txs) - s.payments_out) <= 2
    /\ Abs(s.opening_balance + TotalIn(txs) - TotalOut(txs)
             - s.closing_balance) <= 2

C4_SuccessIff ==
    pc = "returned"
        => (result.success
              <=> (result.errors = <<>> /\ Len(result.transactions) > 0))

\* C4 witness: parse has returned success with validation warnings.
C4_Witness ==
    pc = "returned" /\ result.success /\ result.warnings # <<>>

\* The target does not exist, is not a PDF, or every page of it yields no
\* token.
InputError ==
    \/ ~file.exists
    \/ ~file.is_pdf
    \/ ~file.opens
    \/ \A i \in 1..Len(pages_words) : pages_words[i] = <<>>

\* C5 as stated: an input error makes parse return success false with a
\* non-empty errors list.
C5_InputErrorReported ==
    (pc = "returned" /\ InputError)
        => (~result.success /\ result.errors # <<>>)

\* Whether out is the stable date-sort of fin: as long, in non-decreasing
\* date order, and with the transactions of each date in fin's order.
StableDateSort(out, fin) ==
    /\ Len(out) = Len(fin)
    /\ \A i, j \in 1..Len(out) :
           i < j => DateKey(out[i].date[1]) <= DateKey(out[j].date[1])
    /\ \A k \in 1..Len(fin) :
           SelectSeq(out, LAMBDA t : t.date = fin[k].date)
               = SelectSeq(fin, LAMBDA t : t.date = fin[k].date)

\* C6: the returned list is the stable date-sort of the finalization
\* sequence.
C6_StableDateOrder ==
    extracted # None => StableDateSort(extracted[1].transactions, transactions)

\* C6 witness: a returned list that the sort has reordered and that holds
\* two different transactions of one date.
C6_Witness ==
    /\ extracted # None
    /\ extracted[1].transactions # transactions
    /\ \E i, j \in 1..Len(transactions) :
           /\ i < j
           /\ transactions[i].date = transactions[j].date
           /\ transactions[i] # transactions[j]

\* The date line and the direct-debit line of the scenario, on two pages
\* or below the header lines of the first sheet.
ScenarioInput ==
    {<<PageDate.words, PageDD.words>>, <<PageFirst.words, PageDD.words>>}

ScenarioTransaction ==
    [date         |-> Some([year |-> 2024, month |-> 1, day |-> 5]),
     payment_type |-> Some("DD"),
     description  |-> "Direct Debit ABC",
     paid_out     |-> Some(1250),
     paid_in      |-> None,
     balance      |-> None]

\* C7: the date line 5 Jan 24 followed by the line DD Direct Debit ABC
\* with 12.50 in the paid-out band yields exactly the one transaction
\* 2024-01-05, DD, "Direct Debit ABC", paid out 12.50, nothing paid in.
C7_Scenario ==
    (extracted # None /\ pages_words \in ScenarioInput)
        => extracted[1].transactions = <<ScenarioTransaction>>

\* C7 witness: parse has returned on the scenario's two pages.
C7_Witness ==
    pc = "returned" /\ pages_words = <<PageDate.words, PageDD.words>>

\* Whether the line is skipped: its text holds a noise substring or the
\* balance-brought-forward marker.
SkippedLine(line_words) ==
    \/ IsNoise(LineText(line_words))
    \/ IsBroughtForward(LineText(line_words))

\* The tokens that stand on the skipped lines of the pages only.
SkippedTokens ==
    {"Sortcode", "9.99", "OpeningBalance", "Payments", "Out",
     "ClosingBalance", "BROUGHT"}

\* C8: processing a noise line or a balance-brought-forward line leaves
\* every accumulator field and the emitted list as they are, and no token
\* of such a line is in a description.
C8_NoiseLineSkipped ==
    [][/\ (pc = "extract" /\ lines # <<>> /\ SkippedLine(Head(lines)))
            => UNCHANGED <<accVars, transactions>>
       /\ \A t \in AllTransactions', w \in SkippedTokens :
              ~Contains(t.description, w)
       /\ \A k \in 1..Len(current_description_parts') :
              current_description_parts'[k] \notin SkippedTokens]_vars

\* C8 witness: the SORTCODE line of the first sheet (which has five lines
\* below it) has just been processed with a direct debit in flight.
C8_Witness ==
    /\ pc = "extract"
    /\ Len(lines) = 5
    /\ current_payment_type = Some("DD")
    /\ current_paid_out = Some(1250)
    /\ current_description_parts = <<"Direct", "Debit", "ABC">>

\* Whether the line is a balance-carried-forward marker line that is
\* not skipped.
CarriedLine(line_words) ==
    /\ ~SkippedLine(line_words)
    /\ IsCarriedForward(LineText(line_words))

\* Whether the candidate in flight has a date, a payment type and an
\* amount that is not zero.
InFlightComplete ==
    /\ current_date # None
    /\ current_payment_type # None
    /\ \/ (current_paid_out # None /\ current_paid_out[1] # 0)
       \/ (current_paid_in # None /\ current_paid_in[1] # 0)

\* C9: a balance-carried-forward line emits the candidate in flight if it
\* is complete, empties the description and the amounts, clears the payment
\* type and leaves the date; while no payment type is active a line that
\* yields none adds nothing to the description.
C9_CarriedForward ==
    [][(pc = "extract" /\ lines # <<>>) =>
         /\ CarriedLine(Head(lines)) =>
              /\ current_payment_type' = None
              /\ current_date' = current_date
              /\ current_description_parts' = <<>>
              /\ current_paid_out' = None
              /\ current_paid_in' = None
              /\ current_balance' = None
              /\ transactions' =
                   IF InFlightComplete
                   THEN Append(transactions,
                               [date         |-> current_date,
                                payment_type |-> current_payment_type,
                                description  |->
                                    JoinSpace(current_description_parts),
                                paid_out     |-> current_paid_out,
                                paid_in      |-> current_paid_in,
                                balance      |-> current_balance])
                   ELSE transactions
         /\ (/\ current_payment_type = None
             /\ ~SkippedLine(Head(lines))
             /\ ~CarriedLine(Head(lines))
             /\ ClassifyLine(Head(lines)).payment_type = None) =>
              /\ current_description_parts' = <<>>
              /\ current_payment_type' = None
              /\ transactions' = transactions]_vars

\* C9 witness: a transaction has been emitted, the payment type has been
\* cleared with the date kept, and the next line holds description only.
C9_Witness ==
    /\ pc = "extract"
    /\ Len(transactions) >= 1
    /\ current_date # None
    /\ current_payment_type = None
    /\ lines = <<<<[x |-> 150, text |-> "REF123"]>>>>

\* C10 as stated, on the parses that produced transactions: a parse that
\* has returned with no summary has recorded a warning and no error.
C10_NoSummaryWarning ==
    (/\ pc = "returned" /\ result.summary = None
     /\ Len(result.transactions) > 0)
        => (result.warnings # <<>> /\ result.errors = <<>>)


\* Whether validate_transactions reported the message.
Reported(msg) ==
    \E i \in 1..Len(validation[1].errors) : validation[1].errors[i] = msg

\* C11: validate_transactions on a non-empty list and a summary reports the
\* Payments In mismatch exactly when the sum of paid_in is more than 0.02
\* from payments_in, the Payments Out mismatch exactly when the sum of
\* paid_out is more than 0.02 from payments_out, the balance mismatch
\* exactly when opening + in - out is more than 0.02 from the closing
\* balance, a difference of exactly 0.02 being accepted, and it returns
\* valid exactly when it reports none of them.
C11_ToleranceExact ==
    (pc = "returned" /\ validation # None /\ Len(result.transactions) > 0)
        => LET txs == result.transactions
               s == result.summary[1]
           IN  /\ Reported("Payments In mismatch")
                    <=> Abs(TotalIn(txs) - s.payments_in) > 2
               /\ Reported("Payments Out mismatch")
                    <=> Abs(TotalOut(txs) - s.payments_out) > 2
               /\ Reported("Balance calculation")
                    <=> Abs(s.opening_balance + TotalIn(txs) - TotalOut(txs)
                              - s.closing_balance) > 2
               /\ validation[1].valid <=> validation[1].errors = <<>>


\* What a page text of SummaryTexts holds: the field its label names and
\* the amount behind the label, in pence; no field when the amount is not
\* one the patterns accept.
Labelled(text) ==
    CASE text = "Opening Balance £1,000.00" ->
             Some([key |-> "opening_balance", amount |-> 100000])
      [] text = "ClosingBalance 0.00" ->
             Some([key |-> "closing_balance", amount |-> 0])
      [] text = "closing balance\n£987.50" ->
             Some([key |-> "closing_balance", amount |-> 98750])
      [] text = "Payments In 20.00" ->
             Some([key |-> "payments_in", amount |-> 2000])
      [] text = "payment out £3.00" ->
             Some([key |-> "payments_out", amount |-> 300])
      [] OTHER -> None

SummaryKeys ==
    {"opening_balance", "closing_balance", "payments_in", "payments_out"}

\* The pages whose text holds the label of the key.
PagesWith(key) ==
    {i \in 1..Len(pages_text) :
        Labelled(pages_text[i]) # None
        /\ Labelled(pages_text[i])[1].key = key}

FoundKeys == {key \in SummaryKeys : PagesWith(key) # {}}

\* The amount behind the first label of the key, 0 when there is none.
FirstAmount(key) ==
    IF PagesWith(key) = {} THEN 0
    ELSE Labelled(pages_text[CHOOSE i \in PagesWith(key) :
                                \A j \in PagesWith(key) : i <= j])[1].amount

\* C12: extract_summary returns a StatementSummary exactly when at least
\* two of the four labelled amounts are in the text; a field whose label is
\* not found is 0 and a found field holds its amount.
C12_SummaryIffTwoLabels ==
    pc = "extract"
        => /\ result.summary # None <=> Cardinality(FoundKeys) >= 2
           /\ result.summary # None
                => \A key \in SummaryKeys :
                       result.summary[1][key] = FirstAmount(key)

\* C12 witness: a summary made from exactly two labels, one of them with
\* the amount 0.00, has been returned.
C12_Witness ==
    /\ pc = "extract"
    /\ result.summary # None
    /\ FoundKeys = {"closing_balance", "payments_in"}
    /\ result.summary[1].closing_balance = 0
    /\ result.summary[1].payments_out = 0


\* Whether parse recorded the warning.
Warned(msg) == \E i \in 1..Len(result.warnings) : result.warnings[i] = msg

\* The summary of a text with the opening balance, closing balance and
\* payments-in labels and no payments-out label has been produced with
\* payments_out = 0.
SummaryWithoutOut ==
    /\ result.summary # None
    /\ result.summary[1].opening_balance = 10000
    /\ result.summary[1].closing_balance = 8750
    /\ result.summary[1].payments_out = 0

\* C13 as stated: with the three labels and no payments-out label, the
\* summary has payments_out = 0 and the payments-out mismatch is a warning
\* whenever a returned transaction has a paid_out amount.
C13_AnyPaidOutWarns ==
    pc = "returned"
        => /\ SummaryWithoutOut
           /\ (\E i \in 1..Len(result.transactions) :
                   TruthyNum(result.transactions[i].paid_out))
                => Warned("Payments Out mismatch")

\* C13 amended: with the three labels and no payments-out label, the
\* summary has payments_out = 0 and the payments-out mismatch is a warning
\* whenever the paid_out amounts of the returned transactions sum to more
\* than 0.02.
C13_PaidOutAboveToleranceWarns ==
    pc = "returned"
        => /\ SummaryWithoutOut
           /\ TotalOut(result.transactions) > 2
                => Warned("Payments Out mismatch")

\* C13 witness: a parse with that summary has returned transactions paying
\* out more than 0.02 and the warning.
C13_Witness ==
    /\ pc = "returned"
    /\ SummaryWithoutOut
    /\ TotalOut(result.transactions) > 2
    /\ Warned("Payments Out mismatch")


\* C14: when reading a page raises, in extract_words or in extract_text,
\* the page gives no tokens and no text and exactly one entry is recorded
\* for every page, so that page_count is the number of pages read.
C14_OneEntryPerPage ==
    /\ Len(pages_words) = n_pages
    /\ Len(pages_text) = n_pages
    /\ pc \in {"extract", "extracted", "returned"}
         => result.page_count = n_pages


\* Whether the line is processed and yields a payment-type code.
AnchorLine(line_words) ==
    /\ ~SkippedLine(line_words)
    /\ ~CarriedLine(line_words)
    /\ ClassifyLine(line_words).payment_type # None

\* The transaction the candidate in flight makes.
InFlightTransaction ==
    [date         |-> current_date,
     payment_type |-> current_payment_type,
     description  |-> JoinSpace(current_description_parts),
     paid_out     |-> current_paid_out,
     paid_in      |-> current_paid_in,
     balance      |-> current_balance]

\* The candidate in flight is finalized, emitted if it is complete, and
\* the accumulator then holds the code, the description words and the
\* amounts of the line alone.
FinalizedBefore(line_words) ==
    LET f == ClassifyLine(line_words)
    IN  /\ transactions' = IF InFlightComplete
                           THEN Append(transactions, InFlightTransaction)
                           ELSE transactions
        /\ current_payment_type' = f.payment_type
        /\ current_description_parts' = f.description_words
        /\ current_paid_out' = f.paid_out
        /\ current_paid_in' = f.paid_in
        /\ current_balance' = f.balance

MergedInto(line_words) ==
    LET f == ClassifyLine(line_words)
    IN  /\ transactions' = transactions
        /\ current_payment_type' = f.payment_type
        /\ current_description_parts' =
               current_description_parts \o f.description_words
        /\ current_paid_out' =
               IF f.paid_out # None THEN f.paid_out ELSE current_paid_out
        /\ current_paid_in' =
               IF f.paid_in # None THEN f.paid_in ELSE current_paid_in
        /\ current_balance' =
               IF f.balance # None THEN f.balance ELSE current_balance

\* C19 as stated: a line that yields a payment-type code while the
\* candidate in flight has neither paid-out nor paid-in set finalizes and
\* resets nothing: the description words are kept and the payment type is
\* overwritten by the new code.
C19_AnchorKeepsDescription ==
    [][(/\ pc = "extract" /\ lines # <<>> /\ AnchorLine(Head(lines))
        /\ current_paid_out = None /\ current_paid_in = None)
           => MergedInto(Head(lines))]_vars

\* C19 amended: a line that yields a payment-type code and no full date,
\* while the candidate in flight has no paid-out and no paid-in other than
\* zero, finalizes and resets nothing: the description words are kept and
\* the payment type is overwritten by the new code.
C19_UndatedAnchorKeepsDescription ==
    [][(/\ pc = "extract" /\ lines # <<>> /\ AnchorLine(Head(lines))
        /\ Len(ClassifyLine(Head(lines)).date_parts) # 3
        /\ ~TruthyNum(current_paid_out) /\ ~TruthyNum(current_paid_in))
           => MergedInto(Head(lines))]_vars

\* C19 witness: the anchor with no amount and the direct debit behind it
\* have been returned as one transaction, with the later code and the
\* description words of both.
C19_Witness ==
    /\ pc = "extracted"
    /\ \E i \in 1..Len(extracted[1].transactions) :
           /\ extracted[1].transactions[i].payment_type = Some("DD")
           /\ extracted[1].transactions[i].description
                = "Cash Direct Debit ABC"
           /\ extracted[1].transactions[i].paid_out = Some(1250)

\* C20: a line that yields a payment-type code while no payment type is
\* active starts a new transaction: the amounts the accumulator holds
\* behind it are those of the line itself, and none that was read before
\* it.
C20_AnchorStartsFresh ==
    [][(/\ pc = "extract" /\ lines # <<>> /\ AnchorLine(Head(lines))
        /\ current_payment_type = None)
           => LET f == ClassifyLine(Head(lines))
              IN  /\ current_paid_out' = f.paid_out
                  /\ current_paid_in' = f.paid_in
                  /\ current_balance' = f.balance]_vars


\* C15: however the steps of the parses are interleaved, a parse that has
\* returned has returned the list, in the order, that
\* extract_transactions_from_words returns for its tokens alone.
C15_ParsesIndependent ==
    \A i \in DOMAIN parses :
        parses[i].extracted # None
            => parses[i].extracted[1]
                 = extract_transactions_from_words(parses[i].input)

\* C15 witness: two parses of different documents have both returned, one
\* a list of two transactions and the other a list of one.
C15_Witness ==
    /\ parses # <<>>
    /\ parses[1].input # parses[2].input
    /\ parses[1].extracted # None
    /\ parses[2].extracted # None
    /\ Len(parses[1].extracted[1]) = 2
    /\ Len(parses[2].extracted[1]) = 1

\* How many rows of the sequence are the row.
CountRow(rows, row) == Cardinality({k \in 1..Len(rows) : rows[k] = row})

\* Whether two sequences of rows hold the same rows, each as many times.
SameRows(rows1, rows2) ==
    /\ Len(rows1) = Len(rows2)
    /\ \A k \in 1..Len(rows1) :
           CountRow(rows1, rows1[k]) = CountRow(rows2, rows1[k])

\* The row of every transaction of every list, list after list.
RowsOfLists(tx_lists) ==
    [k \in 1..Len(Flatten(tx_lists)) |->
        writerow(to_csv_row(Flatten(tx_lists)[k]))]

\* The date of a row, dd/mm/yyyy, as a number that orders the dates.
RowDateKey(row) ==
    DigitsToInt(SubSeq(row[1], 7, 10)) * 10000
        + DigitsToInt(SubSeq(row[1], 4, 5)) * 100
        + DigitsToInt(SubSeq(row[1], 1, 2))

\* The lists in another order: one of the orders of 1..Len(tx_lists).
Reorderings(tx_lists) ==
    {[k \in 1..Len(tx_lists) |-> tx_lists[p[k]]] :
        p \in {q \in [1..Len(tx_lists) -> 1..Len(tx_lists)] :
                  \A a, b \in 1..Len(tx_lists) : a # b => q[a] # q[b]}}

\* C16: generate_combined_csv writes one header and behind it one row for
\* every transaction of every list, none lost and none twice, the dates
\* never decreasing; given the lists in any other order it writes the same
\* rows as many times.
C16_CombinedCsv ==
    csv_content # None
        => LET rows == csv_content[1]
           IN  /\ rows[1] = fieldnames
               /\ \A k \in 2..Len(rows) : rows[k] # fieldnames
               /\ SameRows(Tail(rows), RowsOfLists(all_transactions))
               /\ \A a, b \in 2..Len(rows) :
                      a < b => RowDateKey(rows[a]) <= RowDateKey(rows[b])
               /\ \A other \in Reorderings(all_transactions) :
                      SameRows(Tail(generate_combined_csv(other)), Tail(rows))

\* C16 witness: three lists, given latest first, have been written as six
\* rows under the header, the row of November 2023 first.
C16_Witness ==
    /\ csv_content # None
    /\ all_transactions
         = << <<TxCard, TxDebit>>, <<TxCredit, TxDebit>>, <<TxOld, TxCard>> >>
    /\ Len(csv_content[1]) = 7
    /\ csv_content[1][2][1] = "12/11/2023"
    /\ csv_content[1][7][1] = "05/01/2024"

\* Whether the text is an amount with two decimals that reads back as the
\* number of pence.
TwoDecimalsOf(text, pence) ==
    /\ IsFloat(text)
    /\ FloatPence(text) = pence

\* C17: in the row of a transaction, Income is empty exactly when paid_in is
\* null or zero and is otherwise the pound sign and the amount with two
\* decimals; Expenses is empty exactly when paid_out is null or zero and is
\* otherwise a minus, the pound sign and the amount with two decimals; Bank
\* is the literal hsbc.
C17_CsvRow ==
    csv_content # None
        => \A k \in 1..Len(combined) :
               LET row == csv_content[1][k + 1]
                   tx == combined[k]
                   lp == Len(Pound)
               IN  /\ row[2] = "hsbc"
                   /\ row[4] = "" <=> tx.paid_in \in {None, Some(0)}
                   /\ row[4] # ""
                        => /\ SubSeq(row[4], 1, lp) = Pound
                           /\ TwoDecimalsOf(
                                SubSeq(row[4], lp + 1, Len(row[4])),
                                tx.paid_in[1])
                   /\ row[5] = "" <=> tx.paid_out \in {None, Some(0)}
                   /\ row[5] # ""
                        => /\ SubSeq(row[5], 1, 1 + lp) = "-" \o Pound
                           /\ TwoDecimalsOf(
                                SubSeq(row[5], lp + 2, Len(row[5])),
                                tx.paid_out[1])

\* C17 witness: the rows written hold a transaction with paid_in 0 and a
\* paid_out, as an empty Income and Expenses of -7.25, and a credit of
\* 1000.00 with no Expenses.
C17_Witness ==
    /\ csv_content # None
    /\ \E k \in 2..Len(csv_content[1]) :
           /\ csv_content[1][k][4] = ""
           /\ csv_content[1][k][5] = "-" \o Pound \o "7.25"
           /\ combined[k - 1].paid_in = Some(0)
    /\ \E k \in 2..Len(csv_content[1]) :
           /\ csv_content[1][k][4] = Pound \o "1000.00"
           /\ csv_content[1][k][5] = ""


\* Whether the line is processed and yields three date tokens.
DateLine(line_words) ==
    /\ ~SkippedLine(line_words)
    /\ ~CarriedLine(line_words)
    /\ Len(ClassifyLine(line_words).date_parts) = 3

\* The calendar dates that the three tokens write as day, month
\* abbreviation and two-digit year: at most one.
CalendarDates(parts) ==
    {d \in [day   : 1..31,
            month : {m \in 1..12 : parts[2] = MonthNames[m]},
            year  : {y \in 1969..2068 : parts[3] = TwoDigits(y % 100)}] :
        /\ parts[1] \in {IntStr(d.day), TwoDigits(d.day)}
        /\ d.day <= DaysInMonth(d.month, d.year)}

\* The candidate in flight is finalized under the date set before the
\* line: emitted with it if it is complete, dropped otherwise.
FinalizedUnderOldDate ==
    transactions' = IF InFlightComplete
                    THEN Append(transactions, InFlightTransaction)
                    ELSE transactions

\* A date stays until the next date line, and a transaction that is
\* finalized carries the date set before the step.
DateInherited ==
    /\ (pc = "extract" /\ lines # <<>> /\ DateLine(Head(lines)))
         \/ current_date' = current_date
    /\ transactions' # transactions
         => /\ Len(transactions') = Len(transactions) + 1
            /\ SubSeq(transactions', 1, Len(transactions)) = transactions
            /\ transactions'[Len(transactions')].date = current_date

\* C21 as stated: a line that yields three date tokens finalizes the
\* candidate in flight under the date set before, and the date is then a
\* calendar date, the one its tokens give; every transaction finalized
\* later carries the date of the last date line.
C21_DateLineSetsCalendarDate ==
    [][/\ (pc = "extract" /\ lines # <<>> /\ DateLine(Head(lines)))
            => /\ FinalizedUnderOldDate
               /\ current_date' # None
               /\ current_date'[1]
                    \in CalendarDates(ClassifyLine(Head(lines)).date_parts)
       /\ DateInherited]_vars

\* C21 amended: a line that yields three date tokens finalizes the
\* candidate in flight under the date set before; if the tokens write a
\* calendar date the date is then that one, and if they write none the
\* date is then unset; every transaction finalized later carries the date
\* of the last date line.
C21_DateLineSetsDate ==
    [][/\ (pc = "extract" /\ lines # <<>> /\ DateLine(Head(lines)))
            => /\ FinalizedUnderOldDate
               /\ LET ds == CalendarDates(ClassifyLine(Head(lines)).date_parts)
                  IN  IF ds = {} THEN current_date' = None
                      ELSE current_date' # None /\ ds = {current_date'[1]}
       /\ DateInherited]_vars

\* C21 witness: behind the date line of 5 January the direct debit and the
\* card payment have been returned, both under that date.
C21_Witness ==
    /\ pc = "extracted"
    /\ Len(transactions) = 2
    /\ transactions[1].payment_type = Some("DD")
    /\ transactions[2].payment_type = Some("VIS")
    /\ \A i \in 1..2 :
           transactions[i].date = Some([year |-> 2024, month |-> 1, day |-> 5])

\* Whether the line is processed and yields three date tokens that write
\* no calendar date.
BadDateLine(line_words) ==
    /\ DateLine(line_words)
    /\ CalendarDates(ClassifyLine(line_words).date_parts) = {}

\* C29: a line whose three date tokens write no calendar date finalizes
\* the candidate in flight under the date set before and leaves the date
\* unset; while the date is unset no step emits a transaction; and no
\* error is recorded, also not in what is returned.
C29_BadDateClearsDate ==
    [][/\ (pc = "extract" /\ lines # <<>> /\ BadDateLine(Head(lines)))
            => /\ FinalizedUnderOldDate
               /\ current_date' = None
       /\ current_date = None => transactions' = transactions
       /\ errors' = <<>>
       /\ extracted' # None => extracted'[1].errors = <<>>]_vars

\* C29 witness: the line 31 Feb 24 has finalized the credit of 3 January,
\* and the direct debit behind it, complete but for the date, has been
\* dropped at the end of the input.
C29_Witness ==
    /\ pc = "extracted"
    /\ Len(transactions) = 1
    /\ transactions[1].payment_type = Some("CR")
    /\ transactions[1].date = Some([year |-> 2024, month |-> 1, day |-> 3])
    /\ current_date = None
    /\ current_payment_type = Some("DD")
    /\ extracted[1].errors = <<>>

\* Whether the line is processed by the classifier: neither skipped nor a
\* balance-carried-forward line.
ClassifiedLine(line_words) ==
    /\ ~SkippedLine(line_words)
    /\ ~CarriedLine(line_words)

\* C22: while no payment type is active the description list is empty; a
\* line processed with no payment type active, none being set on the line
\* itself, leaves it empty, whatever description words the line holds; a
\* line processed with a payment type active, or setting one, appends its
\* description words; and a transaction that a step emits has as its
\* description the words the list held before the step.
C22_DescriptionNeedsPaymentType ==
    [][/\ current_payment_type' = None => current_description_parts' = <<>>
       /\ (pc = "extract" /\ lines # <<>> /\ ClassifiedLine(Head(lines)))
            => LET f == ClassifyLine(Head(lines))
               IN  IF current_payment_type = None /\ f.payment_type = None
                   THEN current_description_parts' = <<>>
                   ELSE current_description_parts'
                          \in {f.description_words,
                               current_description_parts
                                 \o f.description_words}
       /\ transactions' # transactions
            => transactions'
                 = Append(transactions,
                          [transactions'[Len(transactions')] EXCEPT
                             !.description =
                                JoinSpace(current_description_parts)])]_vars

\* C22 witness: the document is the date line, a line of description with
\* no payment type active and the direct debit; the parse has returned the
\* direct debit with the words of its own line alone.
C22_Witness ==
    /\ pc = "returned"
    /\ pages_words = <<PageDate.words, PageDesc.words, PageDD.words>>
    /\ Len(result.transactions) = 1
    /\ result.transactions[1].description = "Direct Debit ABC"

\* What the accumulator a holds after a finalization of the candidate in
\* flight: the list as it was or with the candidate added, nothing in the
\* description and in the three amounts, the date and the payment type of
\* before.
Finalized(a) ==
    /\ a.transactions
         \in {transactions, Append(transactions, InFlightTransaction)}
    /\ a.current_description_parts = <<>>
    /\ a.current_paid_out = None
    /\ a.current_paid_in = None
    /\ a.current_balance = None
    /\ a.current_date = current_date
    /\ a.current_payment_type = current_payment_type

\* Whether the line is processed and yields neither three date tokens nor
\* a payment-type code.
ContinuationLine(line_words) ==
    /\ ClassifiedLine(line_words)
    /\ Len(ClassifyLine(line_words).date_parts) # 3
    /\ ClassifyLine(line_words).payment_type = None

\* C23: save_transaction, called in any state the extraction reaches,
\* empties the description list and the three amounts and keeps the date
\* and the payment type, whether it emits the candidate or not; so does the
\* step that finalizes at the end of the input; and a continuation line
\* keeps the date and the payment type and emits nothing, so that its
\* amount is emitted under them.
C23_FinalizationResets ==
    [][/\ pc = "extract" => Finalized(save_transaction(Acc))
       /\ (pc = "extract" /\ pc' = "extracted") => Finalized(Acc')
       /\ (pc = "extract" /\ lines # <<>> /\ ContinuationLine(Head(lines)))
            => /\ UNCHANGED <<current_date, current_payment_type,
                              transactions>>
               /\ LET f == ClassifyLine(Head(lines))
                  IN  /\ f.paid_out # None => current_paid_out' = f.paid_out
                      /\ f.paid_in # None => current_paid_in' = f.paid_in]_vars

\* C23 witness: the document is the credit of 3 January, the date line of
\* 5 January, which finalizes it, and a line with a paid-in amount only;
\* the parse has returned the credit and a second transaction of that
\* amount with the new date, the payment type of the credit and neither
\* its description nor its balance.
C23_Witness ==
    /\ pc = "returned"
    /\ pages_words = <<PageCR.words, PageDate.words, PageAmt.words>>
    /\ Len(result.transactions) = 2
    /\ result.transactions[1].description = "Salary"
    /\ result.transactions[2]
         = [date         |-> Some([year |-> 2024, month |-> 1, day |-> 5]),
            payment_type |-> Some("CR"),
            description  |-> "",
            paid_out     |-> None,
            paid_in      |-> Some(500),
            balance      |-> None]

\* Whether the candidate in flight has a date, a payment type and a
\* paid-out or paid-in amount, zero or not.
InFlightSet ==
    /\ current_date # None
    /\ current_payment_type # None
    /\ (current_paid_out # None \/ current_paid_in # None)

\* Whether the list holds the transaction t.
Holds(txs, t) == \E i \in 1..Len(txs) : txs[i] = t

\* Whether the step is a pass of a loop of the extraction that leaves
\* less to do: a page less, or the same pages and a line less.
LoopAdvances ==
    \/ Len(todo') < Len(todo)
    \/ (Len(todo') = Len(todo) /\ Len(lines') < Len(lines))

\* Whether the last line of the last page has been processed.
InputEnded == pc = "extract" /\ lines = <<>> /\ todo = <<>>

\* C24 as stated: every step of the extraction before its return leaves
\* less input to process, so the loops end; once the last line of the last
\* page is processed the extraction returns, and a candidate that then has
\* a date, a payment type and an amount is in the returned list.
C24_LastCandidateWithAmount ==
    /\ [][/\ (pc = "extract" /\ pc' = "extract") => LoopAdvances
          /\ (pc = "extract" /\ pc' = "extracted")
               => /\ InputEnded
                  /\ InFlightSet
                       => Holds(extracted'[1].transactions,
                                InFlightTransaction)]_vars
    /\ InputEnded ~> (extracted # None)

\* C24 amended: every step of the extraction before its return leaves
\* less input to process, so the loops end; once the last line of the last
\* page is processed the extraction returns; a candidate that then has a
\* date, a payment type and a paid-out or paid-in amount other than zero is
\* in the returned list, which is the list of the transactions finalized
\* before with it; any other candidate is dropped.
C24_LastCandidateReturned ==
    /\ [][/\ (pc = "extract" /\ pc' = "extract") => LoopAdvances
          /\ (pc = "extract" /\ pc' = "extracted")
               => /\ InputEnded
                  /\ InFlightComplete
                       => Holds(extracted'[1].transactions,
                                InFlightTransaction)
                  /\ Len(extracted'[1].transactions)
                       = Len(transactions)
                           + (IF InFlightComplete THEN 1 ELSE 0)]_vars
    /\ InputEnded ~> (extracted # None)

\* C24 witness: the document is the date line and the card payment whose
\* amount stands on its last line; the extraction has returned it.
C24_Witness ==
    /\ pc = "extracted"
    /\ pages_words = <<PageDate.words, PageVIS.words>>
    /\ Len(extracted[1].transactions) = 1
    /\ extracted[1].transactions[1].description = "Shop London"
    /\ extracted[1].transactions[1].paid_out = Some(725)

\* The number of tokens in the lines.
RECURSIVE TokenCount(_)
TokenCount(ls) ==
    IF ls = <<>> THEN 0 ELSE Len(Head(ls)) + TokenCount(Tail(ls))

\* Whether the lines are made of the tokens of the page alone: as many
\* tokens as the page has, each line the tokens of one rounded offset.
LinesOfPage(ls, words) ==
    /\ TokenCount(ls) = Len(words)
    /\ \A i \in 1..Len(ls) :
           \E y \in LineKeys(words) :
               /\ Len(ls[i]) = Cardinality({k \in 1..Len(words) :
                                              Round(words[k].top) = y})
               /\ \A j \in 1..Len(ls[i]) :
                      \E k \in 1..Len(words) :
                          /\ Round(words[k].top) = y
                          /\ words[k].x0 = ls[i][j].x
                          /\ words[k].text = ls[i][j].text

\* C25: the step to the next page leaves every accumulator field and the
\* emitted list as they are, and the lines it makes hold the tokens of
\* that page alone, whatever the offsets of the tokens of the page before;
\* the anchor with no amount on one page and the amount on the next make
\* one transaction, returned once.
C25_PageBoundary ==
    [][/\ (pc = "extract" /\ page_idx' = page_idx + 1)
            => /\ UNCHANGED <<accVars, transactions>>
               /\ LinesOfPage(lines', Head(todo))
       /\ (/\ pc' = "returned"
           /\ pages_words'
                = <<PageDate.words, PageAnchor.words, PageAmt.words>>)
            => result'.transactions
                 = <<[date         |-> Some([year |-> 2024, month |-> 1,
                                             day |-> 5]),
                      payment_type |-> Some("ATM"),
                      description  |-> "Cash",
                      paid_out     |-> None,
                      paid_in      |-> Some(500),
                      balance      |-> None]>>]_vars

\* C25 witness: the document is the date line, the anchor with no amount
\* and a line holding an amount, a page each; the parse has returned one
\* transaction.
C25_Witness ==
    /\ pc = "returned"
    /\ pages_words = <<PageDate.words, PageAnchor.words, PageAmt.words>>
    /\ Len(result.transactions) = 1
    /\ result.transactions[1].payment_type = Some("ATM")
    /\ result.transactions[1].paid_in = Some(500)

\* The buckets of the classifier.
BucketNames ==
    {"date_parts", "payment_type", "description_words", "paid_out",
     "paid_in", "balance"}

\* The buckets the classifier puts the token in.
Buckets(w) ==
    {b \in BucketNames : ClassifyWord(EmptyFields, w)[b] # EmptyFields[b]}

\* C26: every token of a line that the classifier processes is put in
\* exactly one bucket.
C26_EveryTokenInOneBucket ==
    (pc = "extract" /\ lines # <<>> /\ ClassifiedLine(Head(lines)))
        => \A i \in 1..Len(Head(lines)) :
               Cardinality(Buckets(Head(lines)[i])) = 1

\* Whether the token has the shape of an amount and stands left of the
\* paid-out band.
AmountLeftOfBands(w) == AMOUNT_PATTERN(w.text) /\ w.x < COL_PAID_OUT_MIN

SameLine(line, v, w) ==
    \E a \in 1..Len(line), b \in 1..Len(line) :
        /\ a # b
        /\ line[a] = [x |-> v.x0, text |-> v.text]
        /\ line[b] = [x |-> w.x0, text |-> w.text]

\* C28: the step to a page puts any two words of the page whose vertical
\* offsets differ by less than one unit (ten tenths) in the same line.
C28_CloseTokensShareLine ==
    [][(pc = "extract" /\ page_idx' = page_idx + 1)
         => \A i \in 1..Len(Head(todo)), j \in 1..Len(Head(todo)) :
                (i < j /\ Abs(Head(todo)[i].top - Head(todo)[j].top) < 10)
                    => \E k \in 1..Len(lines') :
                           SameLine(lines'[k], Head(todo)[i],
                                    Head(todo)[j])]_vars

=============================================================================
